---- MODULE Spec2Model ----
(***************************************************************************)
(* Attestation gateway of examples/attestation-dashboard: the TTL cache    *)
(* with its pending map (core/attestation_cache.py), the chain verifier    *)
(* (core/chain_verifier.py, core/measurement_verifier.py,                  *)
(* core/dcap_verifier.py), the gate (proxy/gate.py) and the proxy routes   *)
(* (proxy/router.py), plus the direct verification route                   *)
(* (api/routes/verification.py).                                           *)
(*                                                                         *)
(* Scheduling: the handlers are asyncio coroutines on one event loop.  A   *)
(* coroutine runs without interleaving until it suspends.  The cache lock  *)
(* is never held across a suspension (every `async with self._lock` body   *)
(* is await-free), so acquiring it never suspends and each lock body       *)
(* belongs to the step that contains it.  The suspensions are the HTTP     *)
(* call of fetch_quote, the gather over the DCAP thread and the provenance *)
(* task, and the upstream HTTP call of forward_request; one action is the  *)
(* code between two of them.                                               *)
(***************************************************************************)
EXTENDS Integers, Sequences, FiniteSets, TLC

\* ------------------------------------------------------------------ bounds
NCallers == 2
MaxTime == 2
MaxRequests == 2
MaxChainRequests == 2
Callers == 1..NCallers
Apps == {"A", "B"}

\* attestation_cache_ttl_seconds, scaled down from 300 to keep expiry reachable
ttl_seconds == 1

\* ------------------------------------------------------- optional values
NoneStr == "<None>"
NoneRec == [none |-> TRUE]

\* ------------------------------------------------- hex strings and bytes
\* A 48-byte register is represented by one byte value.
ByteVals == {17, 170, 187, 204, 221, 238}

\* bytes.hex(): lowercase rendering
Hex(b) ==
  CASE b = 17 -> "11"
    [] b = 170 -> "aa"
    [] b = 187 -> "bb"
    [] b = 204 -> "cc"
    [] b = 221 -> "dd"
    [] b = 238 -> "ee"

\* str.lower()
Lower(s) ==
  CASE s = "AA" -> "aa"
    [] s = "BB" -> "bb"
    [] s = "CC" -> "cc"
    [] s = "DD" -> "dd"
    [] s = "EE" -> "ee"
    [] s = "ORG" -> "org"
    [] s = "Repo" -> "repo"
    [] s \in {"X-TDX-Verified", "X-Tdx-Verified"} -> "x-tdx-verified"
    [] s = "X-TDX-Verification-Time" -> "x-tdx-verification-time"
    [] s \in {"X-TDX-DCAP-Status", "X-Tdx-Dcap-Status"} -> "x-tdx-dcap-status"
    [] s = "X-TDX-Cache-Expires" -> "x-tdx-cache-expires"
    [] OTHER -> s

\* Longer strings (URLs, repository names) are sequences of tokens, so that
\* concatenation is \o, lower() applies token by token and `x in y` is the
\* search for a contiguous run
LowerStr(s) == [i \in DOMAIN s |-> Lower(s[i])]

\* `needle in hay` for strings
IsSubstring(needle, hay) ==
  \E i \in 0..(Len(hay) - Len(needle)) : SubSeq(hay, i + 1, i + Len(needle)) = needle

\* datetime.isoformat()
isoformat(t) == <<"T", t>>

\* Python truthiness of an Optional[str]
Truthy(s) == s # NoneStr /\ s # ""

\* `x or ""`
OrEmpty(s) == IF Truthy(s) THEN s ELSE ""

\* ---------------------------------------------------------------- quotes
MIN_QUOTE_LEN == 560
TDX_QUOTE_VERSION == 4

\* A decoded quote: its length, the version field quote[0:2] and the
\* register slices at MRTD_OFFSET and RTMR_OFFSET.
MkQuote(len, version, mrtd, rtmr0, rtmr1, rtmr2, rtmr3) ==
  [len |-> len, version |-> version, mrtd |-> mrtd, rtmr0 |-> rtmr0,
   rtmr1 |-> rtmr1, rtmr2 |-> rtmr2, rtmr3 |-> rtmr3]

\* quote_base64 values: absent, the empty string, a string base64 cannot
\* decode, or the encoding of a quote
NoQuote == [enc |-> "none"]
EmptyQuote == [enc |-> "empty"]
GarbageQuote == [enc |-> "garbage"]
B64(q) == [enc |-> "b64", bytes |-> q]

\* `not quote_base64`
QuoteFalsy(qb) == qb.enc \in {"none", "empty"}

\* base64.b64decode
b64decode(qb) ==
  CASE qb.enc = "b64" -> [ok |-> TRUE, bytes |-> qb.bytes]
    [] qb.enc = "empty" -> [ok |-> TRUE, bytes |-> MkQuote(0, 0, 17, 17, 17, 17, 17)]
    [] OTHER -> [ok |-> FALSE]

\* TDXMeasurements
MkMeasurements(mrtd, rtmr0, rtmr1, rtmr2, rtmr3) ==
  [mrtd |-> mrtd, rtmr0 |-> rtmr0, rtmr1 |-> rtmr1, rtmr2 |-> rtmr2, rtmr3 |-> rtmr3]

\* MeasurementVerifier.extract_measurements
extract_measurements(quote) ==
  IF quote.len < MIN_QUOTE_LEN
  THEN [ok |-> FALSE]
  ELSE [ok |-> TRUE,
        m |-> MkMeasurements(Hex(quote.mrtd), Hex(quote.rtmr0), Hex(quote.rtmr1),
                             Hex(quote.rtmr2), Hex(quote.rtmr3))]

\* MeasurementVerifier.extract_from_base64
extract_from_base64(qb) ==
  LET d == b64decode(qb)
  IN IF d.ok THEN extract_measurements(d.bytes) ELSE [ok |-> FALSE]

\* compare_measurements comparing the hex strings as they are written
compare_measurements_exact(actual, expected, skip_rtmr3) ==
  LET mrtd_match == actual.mrtd = expected.mrtd
      rtmr0_match == actual.rtmr0 = expected.rtmr0
      rtmr1_match == actual.rtmr1 = expected.rtmr1
      rtmr2_match == actual.rtmr2 = expected.rtmr2
      rtmr3_match == skip_rtmr3 \/ actual.rtmr3 = expected.rtmr3
      all_match == mrtd_match /\ rtmr0_match /\ rtmr1_match /\ rtmr2_match /\ rtmr3_match
      mismatches ==
        (IF mrtd_match THEN <<>> ELSE <<"MRTD">>) \o
        (IF rtmr0_match THEN <<>> ELSE <<"RTMR0">>) \o
        (IF rtmr1_match THEN <<>> ELSE <<"RTMR1">>) \o
        (IF rtmr2_match THEN <<>> ELSE <<"RTMR2">>) \o
        (IF rtmr3_match THEN <<>> ELSE <<"RTMR3">>)
  IN [verified |-> all_match,
      mrtd_match |-> mrtd_match, rtmr0_match |-> rtmr0_match,
      rtmr1_match |-> rtmr1_match, rtmr2_match |-> rtmr2_match,
      rtmr3_match |-> rtmr3_match, actual |-> actual,
      error |-> IF all_match THEN <<>> ELSE <<"Measurement mismatch in">> \o mismatches]

\* MeasurementVerifier.compare_measurements
compare_measurements(actual, expected, skip_rtmr3) ==
  LET mrtd_match == Lower(actual.mrtd) = Lower(expected.mrtd)
      rtmr0_match == Lower(actual.rtmr0) = Lower(expected.rtmr0)
      rtmr1_match == Lower(actual.rtmr1) = Lower(expected.rtmr1)
      rtmr2_match == Lower(actual.rtmr2) = Lower(expected.rtmr2)
      rtmr3_match == skip_rtmr3 \/ Lower(actual.rtmr3) = Lower(expected.rtmr3)
      all_match == mrtd_match /\ rtmr0_match /\ rtmr1_match /\ rtmr2_match /\ rtmr3_match
      mismatches ==
        (IF mrtd_match THEN <<>> ELSE <<"MRTD">>) \o
        (IF rtmr0_match THEN <<>> ELSE <<"RTMR0">>) \o
        (IF rtmr1_match THEN <<>> ELSE <<"RTMR1">>) \o
        (IF rtmr2_match THEN <<>> ELSE <<"RTMR2">>) \o
        (IF rtmr3_match THEN <<>> ELSE <<"RTMR3">>)
  IN [verified |-> all_match,
      mrtd_match |-> mrtd_match, rtmr0_match |-> rtmr0_match,
      rtmr1_match |-> rtmr1_match, rtmr2_match |-> rtmr2_match,
      rtmr3_match |-> rtmr3_match, actual |-> actual,
      error |-> IF all_match THEN <<>> ELSE <<"Measurement mismatch in">> \o mismatches]

\* MeasurementVerificationResult
MkMeasurementResult(verified, cmp, actual, error) ==
  [verified |-> verified, match |-> cmp, actual_measurements |-> actual, error |-> error]

NoMatchBits ==
  [mrtd_match |-> FALSE, rtmr0_match |-> FALSE, rtmr1_match |-> FALSE,
   rtmr2_match |-> FALSE, rtmr3_match |-> FALSE]

ERR_EXTRACT == <<"Failed to extract measurements">>
ERR_UNCONFIGURED == <<"No expected measurements configured. Use /api/v1/verify/baseline to capture.">>
ERR_SKIPPED == <<"Skipped due to quote fetch failure">>

\* _verify_measurements without the check that a baseline is configured:
\* an absent expected_mrtd is compared as the empty string
_verify_measurements_unchecked(registration, quote_base64, actual_measurements) ==
  LET ex == IF actual_measurements = NoneRec
            THEN extract_from_base64(quote_base64)
            ELSE [ok |-> TRUE, m |-> actual_measurements]
  IN IF ~ex.ok
     THEN MkMeasurementResult(FALSE, NoMatchBits, NoneRec, ERR_EXTRACT)
     ELSE LET expected == MkMeasurements(OrEmpty(registration.expected_mrtd),
                                         OrEmpty(registration.expected_rtmr0),
                                         OrEmpty(registration.expected_rtmr1),
                                         OrEmpty(registration.expected_rtmr2),
                                         OrEmpty(registration.expected_rtmr3))
          IN CHOOSE r \in {MkMeasurementResult(comparison.verified,
                                                [f \in DOMAIN NoMatchBits |-> comparison[f]],
                                                comparison.actual, comparison.error) :
                             comparison \in {compare_measurements(ex.m, expected, TRUE)}} : TRUE

\* ChainVerifier._verify_measurements
_verify_measurements(registration, quote_base64, actual_measurements) ==
  LET ex == IF actual_measurements = NoneRec
            THEN extract_from_base64(quote_base64)
            ELSE [ok |-> TRUE, m |-> actual_measurements]
  IN IF ~ex.ok
     THEN MkMeasurementResult(FALSE, NoMatchBits, NoneRec, ERR_EXTRACT)
     ELSE IF ~Truthy(registration.expected_mrtd)
     THEN MkMeasurementResult(FALSE, NoMatchBits, ex.m, ERR_UNCONFIGURED)
     ELSE LET expected == MkMeasurements(registration.expected_mrtd,
                                         OrEmpty(registration.expected_rtmr0),
                                         OrEmpty(registration.expected_rtmr1),
                                         OrEmpty(registration.expected_rtmr2),
                                         OrEmpty(registration.expected_rtmr3))
          IN CHOOSE r \in {MkMeasurementResult(comparison.verified,
                                                [f \in DOMAIN NoMatchBits |-> comparison[f]],
                                                comparison.actual, comparison.error) :
                             comparison \in {compare_measurements(ex.m, expected, TRUE)}} : TRUE

\* ChainVerifier._verify_measurements raises instead of returning: a
\* register the provider reported as null fails the str validation of the
\* TDXMeasurements schema and the .lower() of compare_measurements
_verify_measurements_raises(registration, quote_base64, actual_measurements) ==
  /\ actual_measurements # NoneRec
  /\ \E f \in DOMAIN actual_measurements : actual_measurements[f] = NoneStr

\* ------------------------------------------------------ DCAP verification
\* What the host offers to one DCAPVerifier: whether ctypes.CDLL loads the
\* library ("loaded"), raises OSError ("unavailable") or loads a library
\* without the expected symbols ("nosymbols"); the return code of
\* sgx_qv_verify_quote and the verification result it writes.
DcapLibs == {"loaded", "unavailable", "nosymbols"}
DcapCodes == 0..7
DcapEnvs == [lib : DcapLibs, ret : {0, 1}, code : DcapCodes]

\* The hosts of the chain runs: a loaded library that answers code 0 or
\* code 5, no library, a library without the expected symbols
ChainDcapEnvs ==
  {e \in DcapEnvs : \/ e.lib = "loaded" /\ e.ret = 0 /\ e.code \in {0, 5}
                    \/ e.lib # "loaded" /\ e.ret = 0 /\ e.code = 0}

\* The hosts of the gateway runs: the library verifies the quote, or it
\* lacks the expected symbols
GatewayDcapEnvs == {e \in DcapEnvs : e.lib # "unavailable" /\ e.ret = 0 /\ e.code = 0}

\* DCAPVerificationOutput; raised = the call raised instead of returning
MkDcap(verified, status) == [raised |-> FALSE, verified |-> verified, status |-> status]
DcapRaised == [raised |-> TRUE]

\* QuoteVerificationResult(code).name; codes outside the enum raise ValueError
QuoteVerificationResultName(code) ==
  CASE code = 0 -> "OK"
    [] code = 1 -> "CONFIG_NEEDED"
    [] code = 2 -> "OUT_OF_DATE"
    [] code = 3 -> "OUT_OF_DATE_CONFIG_NEEDED"
    [] code = 4 -> "INVALID_SIGNATURE"
    [] code = 5 -> "REVOKED"
    [] code = 6 -> "UNSPECIFIED"
    [] OTHER -> "ValueError"

\* DCAPVerifier._mock_verify
_mock_verify(quote) ==
  IF quote.len < MIN_QUOTE_LEN THEN MkDcap(FALSE, "INVALID_QUOTE_LENGTH")
  ELSE IF quote.version # TDX_QUOTE_VERSION THEN MkDcap(FALSE, "INVALID_QUOTE_VERSION")
  ELSE MkDcap(TRUE, "MOCK_OK")

\* DCAPVerifier._real_verify
_real_verify(quote, env) ==
  IF env.ret # 0 THEN MkDcap(FALSE, "ERROR")
  ELSE IF QuoteVerificationResultName(env.code) = "ValueError" THEN MkDcap(FALSE, "EXCEPTION")
  ELSE MkDcap(env.code = 0, QuoteVerificationResultName(env.code))

\* DCAPVerifier.verify_quote (with _load_library: OSError gives the mock
\* mode, any other exception of the load propagates)
verify_quote(quote_b64, env) ==
  LET d == b64decode(quote_b64)
  IN IF ~d.ok THEN MkDcap(FALSE, "INVALID_FORMAT")
     ELSE IF env.lib = "nosymbols" THEN DcapRaised
     ELSE IF env.lib = "unavailable" THEN _mock_verify(d.bytes)
     ELSE _real_verify(d.bytes, env)

\* ------------------------------------------------ provenance verification
\* GitHubVerificationOutput: verified, repository and error (<<>> = None)
MkGithub(verified, repository, error) ==
  [verified |-> verified, repository |-> repository, error |-> error]

\* f"{expected_org}/{expected_repo}"
RepoName(registration) == registration.github_org \o <<"/">> \o registration.github_repo

\* f"https://github.com/{expected_org}/{expected_repo}"
expected_repo_full(registration) == <<"https://github.com/">> \o RepoName(registration)

\* workflow.repository values an attestation predicate can carry; <<>> is
\* the empty string, which is also the default of a missing key
RepoRefs ==
  {<<"https://github.com/", "org", "/", "repo">>,
   <<"https://github.com/", "ORG", "/", "Repo">>,
   <<"https://github.com/", "org", "/", "repo", "-evil">>,
   <<"https://evil.example/?u=", "https://github.com/", "org", "/", "repo">>,
   <<"https://github.com/", "other", "/", "repo">>,
   <<>>}

\* dsseEnvelope.payload of the first bundle: absent or empty, not decodable
\* or not JSON, or a statement whose predicate names a repository
Payloads ==
  {[enc |-> "empty"], [enc |-> "garbage"]} \cup [enc : {"json"}, repository : RepoRefs]

\* Answers of GET /users/{org}/attestations/{digest}: a connection error
\* (no status), 404, another error status, 200 without attestations, 200
\* with a bundle
ConnectError == 0
ApiResponses ==
  {[status |-> ConnectError], [status |-> 404], [status |-> 500],
   [status |-> 200, attestations |-> 0]}
  \cup [status : {200}, attestations : {1}, payload : Payloads]

\* What a failing gh run writes to stderr: nothing, a message, or the very
\* text the CLI backend uses to report a missing tool; each line ends with
\* a newline
CliStderrs ==
  {<<>>, <<"attestation denied", "\n">>, <<"gh CLI not available", "\n">>}

\* The forge answers the API backend can get when some CLI run makes it ask
ExitApiResponses ==
  {[status |-> 404],
   [status |-> 200, attestations |-> 1,
    payload |-> [enc |-> "json",
                 repository |-> <<"https://github.com/", "org", "/", "repo">>]]}

\* What the host offers to one provenance verification: the gh CLI is not
\* installed ("unavailable"), exits 0, or exits 1 with a text on stderr; the
\* forge API answer is there for the runs that reach the API backend
GithubEnvs ==
  [cli : {"exit0"}, stderr : {<<>>}, api : {NoneRec}]
    \cup [cli : {"exit1"}, stderr : CliStderrs \ {<<"gh CLI not available", "\n">>},
          api : {NoneRec}]
    \cup [cli : {"exit1"}, stderr : {<<"gh CLI not available", "\n">>},
          api : ExitApiResponses]
    \cup [cli : {"unavailable"}, stderr : {<<>>}, api : ApiResponses]

\* The forge of the gateway runs: the CLI verifies the attestation
GatewayGithubEnvs == {[cli |-> "exit0", stderr |-> <<>>, api |-> NoneRec]}

\* The forges of the chain runs: the CLI verifies the attestation, or the
\* API knows none
ChainGithubEnvs ==
  {[cli |-> "exit0", stderr |-> <<>>, api |-> NoneRec],
   [cli |-> "unavailable", stderr |-> <<>>, api |-> [status |-> 404]]}

\* str.strip() of a text whose whitespace is its newline tokens
Strip(s) == SelectSeq(s, LAMBDA tok : tok # "\n")

\* GitHubAttestationVerifier._verify_with_cli
_verify_with_cli(registration, cli, stderr) ==
  CASE cli = "exit0" -> MkGithub(TRUE, RepoName(registration), <<>>)
    [] cli = "exit1" ->
         MkGithub(FALSE, NoneStr,
                  Strip(IF stderr # <<>> THEN stderr ELSE <<"Verification failed">>))
    [] OTHER -> MkGithub(FALSE, NoneStr, <<"gh CLI not available">>)

\* str(e.response.status_code)
StatusText(status) == IF status = 500 THEN "500" ELSE "status"

\* an exception leaving _verify_with_api
ApiRaised(e) == [raised |-> TRUE, error |-> <<e>>]

\* GitHubAttestationVerifier._verify_with_api
_verify_with_api(registration, api) ==
  IF api.status = ConnectError THEN ApiRaised("ConnectError")
  ELSE IF api.status = 404
  THEN MkGithub(FALSE, NoneStr, <<"No attestation found for image digest">>)
  ELSE IF api.status # 200
  THEN MkGithub(FALSE, NoneStr, <<"GitHub API error:", StatusText(api.status)>>)
  ELSE IF api.attestations = 0
  THEN MkGithub(FALSE, NoneStr, <<"No attestations in response">>)
  ELSE IF api.payload.enc = "json"
  THEN LET repo_ref == api.payload.repository
       IN IF repo_ref # <<>>
             /\ ~IsSubstring(LowerStr(expected_repo_full(registration)), LowerStr(repo_ref))
          THEN MkGithub(FALSE, repo_ref,
                        <<"Repository mismatch: expected">>
                          \o expected_repo_full(registration) \o <<"got">> \o repo_ref)
          ELSE MkGithub(TRUE, RepoName(registration),
                        <<"API-based verification (signature not fully verified)">>)
  ELSE MkGithub(TRUE, RepoName(registration),
                <<"Attestation found but payload parsing failed">>)

\* GitHubAttestationVerifier.verify_image_attestation
verify_image_attestation(registration, genv) ==
  LET cli_result == _verify_with_cli(registration, genv.cli, genv.stderr)
  IN IF cli_result.verified \/ cli_result.error # <<"gh CLI not available">>
     THEN cli_result
     ELSE LET api_result == _verify_with_api(registration, genv.api)
          IN IF "raised" \in DOMAIN api_result
             THEN MkGithub(FALSE, NoneStr, api_result.error)
             ELSE api_result

\* the GET requests _verify_github sends to the forge API
api_requests(registration, genv) ==
  LET cli_result == _verify_with_cli(registration, genv.cli, genv.stderr)
  IN IF Truthy(registration.image_digest)
        /\ ~(cli_result.verified \/ cli_result.error # <<"gh CLI not available">>)
     THEN 1 ELSE 0

\* ChainVerifier._verify_github
_verify_github(registration, genv) ==
  IF ~Truthy(registration.image_digest)
  THEN MkGithub(FALSE, NoneStr,
                <<"No image digest configured for GitHub attestation verification">>)
  ELSE verify_image_attestation(registration, genv)

\* ------------------------------------------------------ chain verification
\* ChainVerificationResult
MkChainResult(dcap, github, measurements) ==
  [dcap |-> dcap, github |-> github, measurements |-> measurements]

\* the result of a failed quote fetch with the provenance left unmarked
FetchFailedResult_unskipped ==
  MkChainResult(MkDcap(FALSE, "FETCH_FAILED"),
                MkGithub(FALSE, NoneStr, <<>>),
                MkMeasurementResult(FALSE, NoMatchBits, NoneRec, ERR_SKIPPED))

\* ChainVerifier.verify, the result of the `except` of the quote fetch
FetchFailedResult ==
  MkChainResult(MkDcap(FALSE, "FETCH_FAILED"),
                MkGithub(FALSE, NoneStr, ERR_SKIPPED),
                MkMeasurementResult(FALSE, NoMatchBits, NoneRec, ERR_SKIPPED))

\* ChainVerifier.verify, steps 2 (conversion) and 3 once the gather returned
ChainResult(registration, quote_base64, actual_measurements, dcap_output, github_output) ==
  MkChainResult(dcap_output, github_output,
                _verify_measurements(registration, quote_base64, actual_measurements))

\* ------------------------------------------------------------------- cache
\* is_expired with the boundary instant counted as expired
is_expired_at_boundary(cached, t) == t >= cached.expires_at

\* CachedAttestation.is_expired
is_expired(cached, t) == t > cached.expires_at

\* get that serves only verified entries
get_verified_only(cache, app_id, t) ==
  LET cached == cache[app_id]
  IN IF cached # NoneRec /\ cached.verified /\ ~(t > cached.expires_at)
     THEN [ret |-> cached, cache |-> cache]
     ELSE IF cached # NoneRec
     THEN [ret |-> NoneRec, cache |-> [cache EXCEPT ![app_id] = NoneRec]]
     ELSE [ret |-> NoneRec, cache |-> cache]

\* get without the expiry check
get_ignoring_expiry(cache, app_id, t) ==
  [ret |-> cache[app_id], cache |-> cache]

\* AttestationCache.get: the value returned and the cache map it leaves
get(cache, app_id, t) ==
  LET cached == cache[app_id]
  IN IF cached # NoneRec /\ ~is_expired(cached, t)
     THEN [ret |-> cached, cache |-> cache]
     ELSE IF cached # NoneRec
     THEN [ret |-> NoneRec, cache |-> [cache EXCEPT ![app_id] = NoneRec]]
     ELSE [ret |-> NoneRec, cache |-> cache]

\* AttestationCache.set: the CachedAttestation it builds and stores in a
\* cache constructed with ttl
set(app_id, verified, dcap, github, measurements, t, ttl) ==
  [app_id |-> app_id, verified |-> verified, dcap |-> dcap, github |-> github,
   measurements |-> measurements, cached_at |-> t, expires_at |-> t + ttl]

\* AttestationCache.stats
stats(cache, t, ttl) ==
  LET entries == {a \in Apps : cache[a] # NoneRec}
      valid == {a \in entries : ~is_expired(cache[a], t)}
  IN [total_entries |-> Cardinality(entries), valid_entries |-> Cardinality(valid),
      expired_entries |-> Cardinality(entries) - Cardinality(valid),
      ttl_seconds |-> ttl]

\* ---------------------------------------------------------------- settings
\* Settings: the names of its fields
SettingsFields ==
  {"app_name", "debug", "host", "port", "database_url", "tdx_proxy_url",
   "dcap_library_path", "pccs_url", "github_token", "github_api_base",
   "attestation_cache_ttl_seconds", "proxy_request_timeout_seconds"}

\* Values the environment can give Settings.attestation_cache_ttl_seconds,
\* an int field without a validator: a negative one, zero, the default
TtlSettings == {-1, 0, ttl_seconds}

\* What ChainVerifier.__init__ hands to the verifiers
VerifierSettings == {"dcap_library_path", "github_token"}

\* -------------------------------------------------------------------- gate
\* attestation_gate without the check of attestation.verified
attestation_gate_open(outcome) ==
  IF outcome.raised
  THEN [status |-> 503, detail |-> [error |-> "Attestation verification error"]]
  ELSE [status |-> 0, detail |-> NoneRec]

\* attestation_gate after get_or_verify: outcome.raised when it raised,
\* otherwise outcome.attestation; status 0 means the attestation is returned
attestation_gate(outcome) ==
  IF outcome.raised
  THEN [status |-> 503, detail |-> [error |-> "Attestation verification error"]]
  ELSE IF ~outcome.attestation.verified
  THEN [status |-> 403,
        detail |-> [error |-> "Attestation verification failed",
                    dcap_valid |-> outcome.attestation.dcap.verified,
                    dcap_status |-> outcome.attestation.dcap.status,
                    github_valid |-> outcome.attestation.github.verified,
                    measurements_valid |-> outcome.attestation.measurements.verified,
                    cached_at |-> isoformat(outcome.attestation.cached_at)]]
  ELSE [status |-> 0, detail |-> NoneRec]

\* build_verification_headers with the two timestamps exchanged
build_verification_headers_swapped(attestation) ==
  ("X-TDX-Verified" :> (IF attestation.verified THEN "true" ELSE "false"))
    @@ ("X-TDX-Verification-Time" :> isoformat(attestation.expires_at))
    @@ ("X-TDX-DCAP-Status" :> attestation.dcap.status)
    @@ ("X-TDX-Cache-Expires" :> isoformat(attestation.cached_at))

\* build_verification_headers
build_verification_headers(attestation) ==
  ("X-TDX-Verified" :> (IF attestation.verified THEN "true" ELSE "false"))
    @@ ("X-TDX-Verification-Time" :> isoformat(attestation.cached_at))
    @@ ("X-TDX-DCAP-Status" :> attestation.dcap.status)
    @@ ("X-TDX-Cache-Expires" :> isoformat(attestation.expires_at))

\* ------------------------------------------------------------ proxy client
\* SKIP_REQUEST_HEADERS
SKIP_REQUEST_HEADERS ==
  {"host", "connection", "keep-alive", "proxy-authenticate", "proxy-authorization",
   "te", "trailers", "transfer-encoding", "upgrade"}

\* SKIP_RESPONSE_HEADERS
SKIP_RESPONSE_HEADERS ==
  {"connection", "keep-alive", "proxy-authenticate", "proxy-authorization",
   "te", "trailers", "transfer-encoding", "upgrade", "content-encoding",
   "content-length"}

\* filter_request_headers
filter_request_headers(headers) ==
  [k \in {h \in DOMAIN headers : Lower(h) \notin SKIP_REQUEST_HEADERS} |-> headers[k]]

\* filter_response_headers
filter_response_headers(headers) ==
  [k \in {h \in DOMAIN headers : Lower(h) \notin SKIP_RESPONSE_HEADERS} |-> headers[k]]

\* The headers of the upstream response as httpx.Headers.items() yields
\* them (names in lowercase)
UpstreamHeaders ==
  ("content-type" :> "text/plain") @@ ("content-length" :> "12")
    @@ ("connection" :> "close") @@ ("host" :> "upstream.internal")

\* proxy_request lines 111-118: headers.update(verification_headers) on the
\* filtered upstream headers
ResponseHeaders(upstream, verification_headers) ==
  verification_headers @@ filter_response_headers(upstream)

\* The header names the gateway writes
VerificationHeaderNames ==
  {"X-TDX-Verified", "X-TDX-Verification-Time", "X-TDX-DCAP-Status", "X-TDX-Cache-Expires"}
\* response.headers.items() of the upstream response: httpx yields every
\* header name in lower case
HeadersItems(raw) ==
  [k \in {Lower(h) : h \in DOMAIN raw} |->
     raw[CHOOSE h \in DOMAIN raw : Lower(h) = k]]

\* The headers an application can answer with: its own, or its own and a
\* verification header of its making, in one of three spellings
UpstreamHeaderSets ==
  {UpstreamHeaders}
    \cup {UpstreamHeaders @@ (h :> "forged") :
            h \in {"X-TDX-Verified", "x-tdx-verified", "X-Tdx-Dcap-Status"}}

\* The path tail and the query string of a client's request: the query is
\* the sequence of its key/value pairs as request.query_params holds them
ClientQueries ==
  {<<>>,
   <<<<"a", "1">>, <<"b", "2">>>>,
   <<<<"a", "1">>, <<"b", "2">>, <<"a", "3">>>>}
ClientRequests == [path : {"", "index"}, query : ClientQueries]

\* The client of the gateway runs asks for one page without a query
GatewayClientRequest == [path |-> "index", query |-> <<>>]

\* d[key] = value on the items of a dict: the place of an existing key is
\* kept and its value replaced, a new key goes last
dict_setitem(d, key, value) ==
  IF \E i \in DOMAIN d : d[i][1] = key
  THEN [i \in DOMAIN d |-> IF d[i][1] = key THEN <<key, value>> ELSE d[i]]
  ELSE Append(d, <<key, value>>)

\* dict(request.query_params): the items of the dict built from the pairs
RECURSIVE dict_of(_, _)
dict_of(pairs, d) ==
  IF pairs = <<>> THEN d
  ELSE dict_of(Tail(pairs), dict_setitem(d, Head(pairs)[1], Head(pairs)[2]))

\* proxy_request lines 101-114 and ProxyClient.forward_request lines
\* 102-109: the url is app_endpoint + "/" + path without a query string,
\* and the query the application receives is the one httpx encodes from
\* params; client keeps what the client asked for
forward_request(registration, client) ==
  [client |-> client,
   url |-> [app_endpoint |-> registration.id, path |-> <<"/", client.path>>],
   params |-> dict_of(client.query, <<>>)]

\* ----------------------------------------------------------- registrations
\* Registration: the columns the gateway reads
MkRegistration(id, mrtd, rtmr0, rtmr1, rtmr2, rtmr3, digest) ==
  [id |-> id, expected_mrtd |-> mrtd, expected_rtmr0 |-> rtmr0,
   expected_rtmr1 |-> rtmr1, expected_rtmr2 |-> rtmr2, expected_rtmr3 |-> rtmr3,
   image_digest |-> digest, github_org |-> <<"org">>, github_repo |-> <<"repo">>]

\* Rows the registrations table can hold for each app: "A" with a full
\* baseline (lowercase or uppercase hex) with or without an image digest,
\* "B" without expected_mrtd (NULL, or the empty string)
RegistrationRows(a) ==
  IF a = "A"
  THEN {MkRegistration(a, "aa", "bb", "cc", "dd", "ee", "sha256:d"),
        MkRegistration(a, "AA", "bb", "cc", "dd", "ee", "sha256:d"),
        MkRegistration(a, "aa", "bb", "cc", "dd", "ee", NoneStr)}
  ELSE {MkRegistration(a, NoneStr, NoneStr, NoneStr, NoneStr, NoneStr, "sha256:d"),
        MkRegistration(a, "", "bb", "cc", "dd", "ee", "sha256:d")}

\* ---------------------------------------------------------- quote provider
QGood == MkQuote(560, 4, 170, 187, 204, 221, 238)
QEvil == MkQuote(560, 4, 17, 187, 204, 221, 238)
MGood == MkMeasurements("aa", "bb", "cc", "dd", "ee")
MUpper == MkMeasurements("AA", "BB", "CC", "DD", "EE")
MEvil == MkMeasurements("11", "bb", "cc", "dd", "ee")
MEmpty == MkMeasurements("", "", "", "", "")
MNull == MkMeasurements(NoneStr, NoneStr, NoneStr, NoneStr, NoneStr)
MRtmr0 == MkMeasurements("aa", "11", "cc", "dd", "ee")
MRtmr1 == MkMeasurements("aa", "bb", "11", "dd", "ee")
MRtmr2 == MkMeasurements("aa", "bb", "cc", "11", "ee")
MRtmr3 == MkMeasurements("aa", "bb", "cc", "dd", "11")
QShort == MkQuote(559, 4, 170, 187, 204, 221, 238)
QVersion3 == MkQuote(560, 3, 170, 187, 204, 221, 238)

\* JSON bodies GET {tdx_proxy_endpoint}/quote can answer with: the quote and
\* the measurements reported next to it (data.get defaults for missing keys)
ProviderResponses ==
  {[quote |-> B64(QGood), measurements |-> MGood],
   [quote |-> B64(QGood), measurements |-> MUpper],
   [quote |-> B64(QEvil), measurements |-> MEvil],
   [quote |-> B64(QEvil), measurements |-> MGood],
   [quote |-> EmptyQuote, measurements |-> MEmpty]}

\* The provider of the gateway runs: it reports what its quote carries
GatewayProviderResponses ==
  {[quote |-> B64(QGood), measurements |-> MUpper]}

\* quote_base64 values a client can post to /api/v1/verify
SuppliedQuotes == {NoQuote, GarbageQuote, B64(QGood)}

\* The verifier runs add a provider that reports null registers, providers
\* that report one register changed, and supplied quotes of 559 bytes and
\* of version 3
VerifyProviderResponses ==
  ProviderResponses
    \cup {[quote |-> B64(QGood), measurements |-> m] :
            m \in {MNull, MRtmr0, MRtmr1, MRtmr2, MRtmr3}}
VerifySuppliedQuotes == SuppliedQuotes \cup {B64(QShort), B64(QVersion3)}

\* The registrations table of the gateway runs
GatewayRegistrations ==
  [a \in Apps |->
     IF a = "A" THEN MkRegistration(a, "AA", "bb", "cc", "dd", "ee", "sha256:d")
     ELSE MkRegistration(a, "", "bb", "cc", "dd", "ee", "sha256:d")]

\* ------------------------------------------------------------------- state
VARIABLES
  now,                 \* datetime.utcnow()
  registrations,       \* the registrations table, by id
  _cache,              \* AttestationCache._cache
  _pending,            \* AttestationCache._pending: app_id -> asyncio.Event
  pc,                  \* where each request task is suspended
  request,             \* the request a task serves: route and app_id
  quote_base64,        \* ChainVerifier.verify: quote_base64
  actual_measurements, \* ChainVerifier.verify: actual_measurements
  dcap_output,         \* result of dcap_task, NoneRec while it runs
  github_output,       \* result of github_task, NoneRec while it runs
  dcap_env,            \* what the host answered to dcap_task
  github_env,          \* what the CLI and the forge answered to github_task
  attestation,         \* the attestation get_or_verify returned to the gate
  forwarded,           \* forward_request was called for the task's request
  upstream_request,    \* the request forward_request sent to the application
  invalidated_in_flight, \* the tasks whose verification was running when
                       \* invalidate removed the entry of their app
  response,            \* the HTTP response the task sent
  cold_verifications,  \* chain verifications get_or_verify started per app
                       \* since one of them last completed
  requests_issued,     \* requests and cache invalidations issued so far
  attestation_cache_ttl_seconds, \* Settings.attestation_cache_ttl_seconds
  provider_requests,   \* GET /quote requests a task sent to the quote provider
  forge_requests,      \* GET requests a task sent to the forge API
  _lock,               \* AttestationCache._lock: the task holding it, or 0
  map_access           \* the access to _cache or _pending a step makes

vars == <<now, registrations, _cache, _pending, pc, request, quote_base64,
          actual_measurements, dcap_output, github_output, dcap_env, github_env,
          attestation, forwarded, upstream_request, invalidated_in_flight, response,
          cold_verifications, requests_issued,
          attestation_cache_ttl_seconds, provider_requests, forge_requests,
          _lock, map_access>>

verify_vars == <<quote_base64, actual_measurements, dcap_output, github_output,
                 dcap_env, github_env, provider_requests, forge_requests>>

\* what the request handlers of the gateway never assign: the table, the
\* configured ttl, and the lock they take and release within one step
static_vars == <<registrations, attestation_cache_ttl_seconds, _lock, map_access>>

\* asyncio.Event() as stored in _pending
NewEvent(c) == [creator |-> c, is_set |-> FALSE]

MkResponse(status, headers, detail) ==
  [status |-> status, headers |-> headers, detail |-> detail]

InitWith(tables, ttls) ==
  /\ now = 0
  /\ registrations \in tables
  /\ attestation_cache_ttl_seconds \in ttls
  /\ provider_requests = [c \in Callers |-> 0]
  /\ forge_requests = [c \in Callers |-> 0]
  /\ _lock = 0
  /\ map_access = NoneRec
  /\ _cache = [a \in Apps |-> NoneRec]
  /\ _pending = [a \in Apps |-> NoneRec]
  /\ pc = [c \in Callers |-> "idle"]
  /\ request = [c \in Callers |-> NoneRec]
  /\ quote_base64 = [c \in Callers |-> NoQuote]
  /\ actual_measurements = [c \in Callers |-> NoneRec]
  /\ dcap_output = [c \in Callers |-> NoneRec]
  /\ github_output = [c \in Callers |-> NoneRec]
  /\ dcap_env = [c \in Callers |-> NoneRec]
  /\ github_env = [c \in Callers |-> NoneRec]
  /\ attestation = [c \in Callers |-> NoneRec]
  /\ forwarded = [c \in Callers |-> FALSE]
  /\ upstream_request = [c \in Callers |-> NoneRec]
  /\ invalidated_in_flight = {}
  /\ response = [c \in Callers |-> NoneRec]
  /\ cold_verifications = [a \in Apps |-> 0]
  /\ requests_issued = 0

\* the gateway with the registrations of GatewayRegistrations
Init == InitWith({GatewayRegistrations}, {ttl_seconds})

\* the gateway with a cache constructed from any ttl setting
InitTtl == InitWith({GatewayRegistrations}, TtlSettings)

\* any table of RegistrationRows
InitChain ==
  InitWith({t \in [Apps -> UNION {RegistrationRows(a) : a \in Apps}] :
              \A a \in Apps : t[a] \in RegistrationRows(a)}, {ttl_seconds})

\* ----------------------------------------------------------------- helpers
Returned(att) == [raised |-> FALSE, attestation |-> att]
Raised == [raised |-> TRUE, attestation |-> NoneRec]

\* proxy_request from the return of get_or_verify on: the gate decides, and
\* on admission forward_request sends the upstream request (router.py 99-114)
GateAndForward(c, outcome) ==
  \E d \in {attestation_gate(outcome)} :
     /\ attestation' = [attestation EXCEPT ![c] = outcome.attestation]
     /\ IF d.status = 0
        THEN /\ pc' = [pc EXCEPT ![c] = "forward"]
             /\ forwarded' = [forwarded EXCEPT ![c] = TRUE]
             /\ UNCHANGED <<upstream_request, invalidated_in_flight>>
             /\ response' = response
        ELSE /\ pc' = [pc EXCEPT ![c] = "done"]
             /\ UNCHANGED <<forwarded, upstream_request, invalidated_in_flight>>
             /\ response' = [response EXCEPT ![c] = MkResponse(d.status, NoneRec, d.detail)]

\* StoreAndReturn with a verdict that leaves the provenance result out
StoreAndReturn_without_github(c, result) ==
  LET a == request[c].app_id
      verified == result.dcap.verified /\ result.measurements.verified
  IN \E cached \in {set(a, verified, result.dcap, result.github, result.measurements, now,
                         attestation_cache_ttl_seconds)} :
     /\ _cache' = [_cache EXCEPT ![a] = cached]
     /\ _pending' = [_pending EXCEPT ![a] = NoneRec]
     /\ cold_verifications' = [cold_verifications EXCEPT ![a] = 0]
     /\ GateAndForward(c, Returned(cached))

\* get_or_verify whose finally block empties the whole pending map
StoreAndReturn_clearing_pending(c, result) ==
  LET a == request[c].app_id
      verified == result.dcap.verified /\ result.github.verified /\ result.measurements.verified
  IN \E cached \in {set(a, verified, result.dcap, result.github, result.measurements, now,
                         attestation_cache_ttl_seconds)} :
     /\ _cache' = [_cache EXCEPT ![a] = cached]
     /\ _pending' = [x \in Apps |-> NoneRec]
     /\ cold_verifications' = [cold_verifications EXCEPT ![a] = 0]
     /\ GateAndForward(c, Returned(cached))

\* get_or_verify lines 175-198 once verifier.verify returned `result`: the
\* verdict is stored, the pending entry found in the map is set and deleted,
\* and the attestation goes to the gate
StoreAndReturn(c, result) ==
  LET a == request[c].app_id
      verified == result.dcap.verified /\ result.github.verified /\ result.measurements.verified
  IN \E cached \in {set(a, verified, result.dcap, result.github, result.measurements, now,
                         attestation_cache_ttl_seconds)} :
     /\ _cache' = [_cache EXCEPT ![a] = cached]
     /\ _pending' = [_pending EXCEPT ![a] = NoneRec]
     /\ cold_verifications' = [cold_verifications EXCEPT ![a] = 0]
     /\ GateAndForward(c, Returned(cached))

\* get_or_verify whose finally block leaves the pending entry in place
RaiseFromVerify_leaving_pending(c) ==
  LET a == request[c].app_id
  IN /\ _cache' = _cache
     /\ _pending' = _pending
     /\ cold_verifications' = [cold_verifications EXCEPT ![a] = 0]
     /\ GateAndForward(c, Raised)

\* get_or_verify when verifier.verify raised: only the finally block runs,
\* and the gate turns the exception into 503
RaiseFromVerify(c) ==
  LET a == request[c].app_id
  IN /\ _cache' = _cache
     /\ _pending' = [_pending EXCEPT ![a] = NoneRec]
     /\ cold_verifications' = [cold_verifications EXCEPT ![a] = 0]
     /\ GateAndForward(c, Raised)

\* VerificationStatus chosen by verify_full_chain
OverallStatus(result) ==
  IF result.dcap.verified /\ result.github.verified /\ result.measurements.verified
  THEN "success"
  ELSE IF result.dcap.verified \/ result.github.verified \/ result.measurements.verified
  THEN "partial"
  ELSE "failed"

\* verify_full_chain once verifier.verify returned: the VerificationResponse
RespondVerification(c, result) ==
  /\ response' = [response EXCEPT ![c] =
                    MkResponse(200, NoneRec, [status |-> OverallStatus(result), result |-> result])]
  /\ pc' = [pc EXCEPT ![c] = "done"]
  /\ UNCHANGED <<_cache, _pending, cold_verifications, attestation, forwarded, upstream_request, invalidated_in_flight>>

\* verify_full_chain when verifier.verify raised: the server answers 500
RespondVerificationError(c) ==
  /\ response' = [response EXCEPT ![c] = MkResponse(500, NoneRec, NoneRec)]
  /\ pc' = [pc EXCEPT ![c] = "done"]
  /\ UNCHANGED <<_cache, _pending, cold_verifications, attestation, forwarded, upstream_request, invalidated_in_flight>>

\* ----------------------------------------------------------------- actions
\* proxy_request up to its first suspension: the gate calls get_or_verify,
\* which answers from the cache or registers in _pending and starts
\* ChainVerifier.verify, suspending in fetch_quote
ProxyRequest(c, a) ==
  /\ pc[c] = "idle"
  /\ requests_issued' = requests_issued + 1
  /\ request' = [request EXCEPT ![c] = [route |-> "proxy", app_id |-> a]]
  /\ UNCHANGED <<now, static_vars, quote_base64, actual_measurements, dcap_output,
                 github_output, dcap_env, github_env, forge_requests>>
  /\ LET g == get(_cache, a, now)
         event == IF _pending[a] # NoneRec THEN _pending[a] ELSE NewEvent(c)
         g2 == get(g.cache, a, now)
     IN IF g.ret # NoneRec
        THEN /\ _cache' = g.cache
             /\ UNCHANGED <<_pending, cold_verifications, provider_requests>>
             /\ GateAndForward(c, Returned(g.ret))
        ELSE IF ~event.is_set
        THEN /\ _cache' = g.cache
             /\ _pending' = [_pending EXCEPT ![a] = event]
             /\ cold_verifications' = [cold_verifications EXCEPT ![a] = @ + 1]
             /\ pc' = [pc EXCEPT ![c] = "fetch_quote"]
             /\ provider_requests' = [provider_requests EXCEPT ![c] = @ + 1]
             /\ UNCHANGED <<attestation, forwarded, upstream_request, invalidated_in_flight, response>>
        ELSE \* event.wait() returns at once on a set event
             /\ _cache' = g2.cache
             /\ _pending' = [_pending EXCEPT ![a] = event]
             /\ UNCHANGED <<cold_verifications, provider_requests>>
             /\ GateAndForward(c, IF g2.ret # NoneRec THEN Returned(g2.ret) ELSE Raised)

\* proxy_status that registers a pending entry on a miss
ProxyStatus_registering(c, a) ==
  /\ pc[c] = "idle"
  /\ request' = [request EXCEPT ![c] = [route |-> "status", app_id |-> a]]
  /\ LET g == get(_cache, a, now)
     IN /\ _cache' = g.cache
        /\ _pending' = IF g.ret = NoneRec /\ _pending[a] = NoneRec
                       THEN [_pending EXCEPT ![a] = NewEvent(c)] ELSE _pending
        /\ response' = [response EXCEPT ![c] =
             MkResponse(200, NoneRec,
               [attestation_cached |-> g.ret # NoneRec,
                attestation |-> g.ret,
                cache_stats |-> stats(g.cache, now, attestation_cache_ttl_seconds)])]
  /\ pc' = [pc EXCEPT ![c] = "done"]
  /\ requests_issued' = requests_issued + 1
  /\ UNCHANGED <<now, static_vars, verify_vars, attestation, forwarded, upstream_request, invalidated_in_flight,
                 cold_verifications>>

\* proxy_status: the diagnostic route
ProxyStatus(c, a) ==
  /\ pc[c] = "idle"
  /\ requests_issued' = requests_issued + 1
  /\ request' = [request EXCEPT ![c] = [route |-> "status", app_id |-> a]]
  /\ LET g == get(_cache, a, now)
     IN /\ _cache' = g.cache
        /\ response' = [response EXCEPT ![c] =
             MkResponse(200, NoneRec,
               [attestation_cached |-> g.ret # NoneRec,
                attestation |-> g.ret,
                cache_stats |-> stats(g.cache, now, attestation_cache_ttl_seconds)])]
  /\ pc' = [pc EXCEPT ![c] = "done"]
  /\ UNCHANGED <<now, static_vars, _pending, verify_vars, attestation, forwarded, upstream_request, invalidated_in_flight,
                 cold_verifications>>

\* verify_full_chain up to the first suspension of ChainVerifier.verify:
\* with a quote it starts the DCAP and provenance tasks, without one it
\* suspends in fetch_quote
VerifyFullChain(c, a, q) ==
  /\ pc[c] = "idle"
  /\ requests_issued' = requests_issued + 1
  /\ request' = [request EXCEPT ![c] = [route |-> "verify", app_id |-> a]]
  /\ quote_base64' = [quote_base64 EXCEPT ![c] = q]
  /\ pc' = [pc EXCEPT ![c] = IF QuoteFalsy(q) THEN "fetch_quote" ELSE "gather"]
  /\ provider_requests' = [provider_requests EXCEPT ![c] = IF QuoteFalsy(q) THEN @ + 1 ELSE @]
  /\ UNCHANGED <<now, static_vars, _cache, _pending, actual_measurements, dcap_output,
                 github_output, dcap_env, github_env, forge_requests, attestation,
                 forwarded, upstream_request, invalidated_in_flight, response, cold_verifications>>

\* fetch_quote raised and verify asks the provider a second time before it
\* returns the FETCH_FAILED result
FetchQuoteFailed_retrying(c) ==
  /\ UNCHANGED requests_issued
  /\ pc[c] = "fetch_quote"
  /\ IF provider_requests[c] < 2
     THEN /\ provider_requests' = [provider_requests EXCEPT ![c] = @ + 1]
          /\ UNCHANGED <<now, static_vars, _cache, _pending, pc, request, quote_base64,
                         actual_measurements, dcap_output, github_output, dcap_env,
                         github_env, forge_requests, attestation, forwarded, upstream_request, invalidated_in_flight, response,
                         cold_verifications>>
     ELSE /\ UNCHANGED <<now, static_vars, request, verify_vars>>
          /\ IF request[c].route = "proxy"
             THEN StoreAndReturn(c, FetchFailedResult)
             ELSE RespondVerification(c, FetchFailedResult)

\* fetch_quote raised: verify returns the FETCH_FAILED result
FetchQuoteFailed(c) ==
  /\ UNCHANGED requests_issued
  /\ pc[c] = "fetch_quote"
  /\ UNCHANGED <<now, static_vars, request, verify_vars>>
  /\ IF request[c].route = "proxy"
     THEN StoreAndReturn(c, FetchFailedResult)
     ELSE RespondVerification(c, FetchFailedResult)

\* fetch_quote returned: verify creates the two tasks and suspends in gather
FetchQuoteReturned(c, resp) ==
  /\ UNCHANGED requests_issued
  /\ pc[c] = "fetch_quote"
  /\ quote_base64' = [quote_base64 EXCEPT ![c] = resp.quote]
  /\ actual_measurements' = [actual_measurements EXCEPT ![c] = resp.measurements]
  /\ pc' = [pc EXCEPT ![c] = "gather"]
  /\ UNCHANGED <<now, static_vars, _cache, _pending, request, dcap_output, github_output,
                 dcap_env, github_env, provider_requests, forge_requests, attestation,
                 forwarded, upstream_request, invalidated_in_flight, response, cold_verifications>>

\* dcap_task: verify_quote in a worker thread
DcapTask(c, env) ==
  /\ UNCHANGED requests_issued
  /\ pc[c] = "gather"
  /\ dcap_output[c] = NoneRec
  /\ dcap_output' = [dcap_output EXCEPT ![c] = verify_quote(quote_base64[c], env)]
  /\ dcap_env' = [dcap_env EXCEPT ![c] = env]
  /\ UNCHANGED <<now, static_vars, _cache, _pending, pc, request, quote_base64,
                 actual_measurements, github_output, github_env, provider_requests,
                 forge_requests, attestation, forwarded, upstream_request, invalidated_in_flight, response, cold_verifications>>

\* github_task started only once dcap_task has finished
GithubTask_after_dcap(c, genv) ==
  /\ UNCHANGED requests_issued
  /\ pc[c] = "gather"
  /\ dcap_output[c] # NoneRec
  /\ github_output[c] = NoneRec
  /\ github_output' = [github_output EXCEPT ![c] =
                         _verify_github(registrations[request[c].app_id], genv)]
  /\ github_env' = [github_env EXCEPT ![c] = genv]
  /\ forge_requests' = [forge_requests EXCEPT ![c] =
                          @ + api_requests(registrations[request[c].app_id], genv)]
  /\ UNCHANGED <<now, static_vars, _cache, _pending, pc, request, quote_base64,
                 actual_measurements, dcap_output, dcap_env, provider_requests,
                 attestation, forwarded, upstream_request, invalidated_in_flight, response, cold_verifications>>

\* github_task: _verify_github
GithubTask(c, genv) ==
  /\ UNCHANGED requests_issued
  /\ pc[c] = "gather"
  /\ github_output[c] = NoneRec
  /\ github_output' = [github_output EXCEPT ![c] =
                         _verify_github(registrations[request[c].app_id], genv)]
  /\ github_env' = [github_env EXCEPT ![c] = genv]
  /\ forge_requests' = [forge_requests EXCEPT ![c] =
                          @ + api_requests(registrations[request[c].app_id], genv)]
  /\ UNCHANGED <<now, static_vars, _cache, _pending, pc, request, quote_base64,
                 actual_measurements, dcap_output, dcap_env, provider_requests,
                 attestation, forwarded, upstream_request, invalidated_in_flight, response, cold_verifications>>

\* gather returned both outputs: verify runs the measurement step and returns
GatherReturned(c) ==
  /\ UNCHANGED requests_issued
  /\ pc[c] = "gather"
  /\ dcap_output[c] # NoneRec /\ ~dcap_output[c].raised
  /\ github_output[c] # NoneRec
  /\ ~_verify_measurements_raises(registrations[request[c].app_id], quote_base64[c],
                                  actual_measurements[c])
  /\ UNCHANGED <<now, static_vars, request, verify_vars>>
  /\ \E result \in {ChainResult(registrations[request[c].app_id], quote_base64[c],
                                  actual_measurements[c], dcap_output[c], github_output[c])} :
        IF request[c].route = "proxy"
        THEN StoreAndReturn(c, result)
        ELSE RespondVerification(c, result)

\* gather re-raised the exception of dcap_task, or it returned and the
\* measurement step raised: verify raises
GatherRaised(c) ==
  /\ UNCHANGED requests_issued
  /\ pc[c] = "gather"
  /\ dcap_output[c] # NoneRec
  /\ \/ dcap_output[c].raised
     \/ /\ github_output[c] # NoneRec
        /\ _verify_measurements_raises(registrations[request[c].app_id], quote_base64[c],
                                       actual_measurements[c])
  /\ UNCHANGED <<now, static_vars, request, verify_vars>>
  /\ IF request[c].route = "proxy"
     THEN RaiseFromVerify(c)
     ELSE RespondVerificationError(c)

\* forward_request returned the upstream response (ok) or raised: the proxy
\* stamps the verification headers, or answers 502
ForwardDone(c, ok, client, upstream) ==
  /\ UNCHANGED requests_issued
  /\ pc[c] = "forward"
  /\ upstream_request' = [upstream_request EXCEPT ![c] =
       forward_request(registrations[request[c].app_id], client)]
  /\ response' = [response EXCEPT ![c] =
       IF ok THEN MkResponse(200, ResponseHeaders(HeadersItems(upstream),
                                                  build_verification_headers(attestation[c])),
                             NoneRec)
       ELSE MkResponse(502, NoneRec, [error |-> "Proxy error"])]
  /\ pc' = [pc EXCEPT ![c] = "done"]
  /\ UNCHANGED <<now, static_vars, _cache, _pending, request, verify_vars, attestation,
                 forwarded, invalidated_in_flight, cold_verifications>>

\* the task ends; the caller may send another request
Finish(c) ==
  /\ UNCHANGED requests_issued
  /\ pc[c] = "done"
  /\ pc' = [pc EXCEPT ![c] = "idle"]
  /\ request' = [request EXCEPT ![c] = NoneRec]
  /\ quote_base64' = [quote_base64 EXCEPT ![c] = NoQuote]
  /\ actual_measurements' = [actual_measurements EXCEPT ![c] = NoneRec]
  /\ dcap_output' = [dcap_output EXCEPT ![c] = NoneRec]
  /\ github_output' = [github_output EXCEPT ![c] = NoneRec]
  /\ dcap_env' = [dcap_env EXCEPT ![c] = NoneRec]
  /\ github_env' = [github_env EXCEPT ![c] = NoneRec]
  /\ provider_requests' = [provider_requests EXCEPT ![c] = 0]
  /\ forge_requests' = [forge_requests EXCEPT ![c] = 0]
  /\ attestation' = [attestation EXCEPT ![c] = NoneRec]
  /\ forwarded' = [forwarded EXCEPT ![c] = FALSE]
  /\ upstream_request' = [upstream_request EXCEPT ![c] = NoneRec]
  /\ invalidated_in_flight' = invalidated_in_flight \ {c}
  /\ response' = [response EXCEPT ![c] = NoneRec]
  /\ UNCHANGED <<now, static_vars, _cache, _pending, cold_verifications>>

\* Cancel without the finally block of get_or_verify
Cancel_leaking(c) ==
  /\ UNCHANGED requests_issued
  /\ pc[c] \in {"fetch_quote", "gather", "forward"}
  /\ pc' = [pc EXCEPT ![c] = "idle"]
  /\ request' = [request EXCEPT ![c] = NoneRec]
  /\ quote_base64' = [quote_base64 EXCEPT ![c] = NoQuote]
  /\ actual_measurements' = [actual_measurements EXCEPT ![c] = NoneRec]
  /\ dcap_output' = [dcap_output EXCEPT ![c] = NoneRec]
  /\ github_output' = [github_output EXCEPT ![c] = NoneRec]
  /\ dcap_env' = [dcap_env EXCEPT ![c] = NoneRec]
  /\ github_env' = [github_env EXCEPT ![c] = NoneRec]
  /\ provider_requests' = [provider_requests EXCEPT ![c] = 0]
  /\ forge_requests' = [forge_requests EXCEPT ![c] = 0]
  /\ attestation' = [attestation EXCEPT ![c] = NoneRec]
  /\ forwarded' = [forwarded EXCEPT ![c] = FALSE]
  /\ upstream_request' = [upstream_request EXCEPT ![c] = NoneRec]
  /\ invalidated_in_flight' = invalidated_in_flight \ {c}
  /\ UNCHANGED <<now, static_vars, _cache, _pending, cold_verifications, response>>

\* The client disconnected and the server cancels the request task at its
\* suspension: CancelledError is no Exception, so no handler of the route or
\* of the gate catches it; of get_or_verify only the finally block runs,
\* no response is sent and the task is gone
Cancel(c) ==
  /\ UNCHANGED requests_issued
  /\ pc[c] \in {"fetch_quote", "gather", "forward"}
  /\ IF request[c].route = "proxy" /\ pc[c] # "forward"
     THEN /\ _pending' = [_pending EXCEPT ![request[c].app_id] = NoneRec]
          /\ cold_verifications' = [cold_verifications EXCEPT ![request[c].app_id] = 0]
     ELSE UNCHANGED <<_pending, cold_verifications>>
  /\ pc' = [pc EXCEPT ![c] = "idle"]
  /\ request' = [request EXCEPT ![c] = NoneRec]
  /\ quote_base64' = [quote_base64 EXCEPT ![c] = NoQuote]
  /\ actual_measurements' = [actual_measurements EXCEPT ![c] = NoneRec]
  /\ dcap_output' = [dcap_output EXCEPT ![c] = NoneRec]
  /\ github_output' = [github_output EXCEPT ![c] = NoneRec]
  /\ dcap_env' = [dcap_env EXCEPT ![c] = NoneRec]
  /\ github_env' = [github_env EXCEPT ![c] = NoneRec]
  /\ provider_requests' = [provider_requests EXCEPT ![c] = 0]
  /\ forge_requests' = [forge_requests EXCEPT ![c] = 0]
  /\ attestation' = [attestation EXCEPT ![c] = NoneRec]
  /\ forwarded' = [forwarded EXCEPT ![c] = FALSE]
  /\ upstream_request' = [upstream_request EXCEPT ![c] = NoneRec]
  /\ invalidated_in_flight' = invalidated_in_flight \ {c}
  /\ UNCHANGED <<now, static_vars, _cache, response>>

\* AttestationCache.invalidate
Invalidate(a) ==
  /\ requests_issued' = requests_issued + 1
  /\ _cache[a] # NoneRec
  /\ _cache' = [_cache EXCEPT ![a] = NoneRec]
  /\ invalidated_in_flight' =
       invalidated_in_flight
         \cup {c \in Callers : /\ pc[c] \in {"fetch_quote", "gather"}
                                /\ request[c].route = "proxy"
                                /\ request[c].app_id = a}
  /\ UNCHANGED <<now, static_vars, _pending, pc, request, verify_vars, attestation,
                 forwarded, upstream_request, response, cold_verifications>>

\* the clock advances
Tick ==
  /\ UNCHANGED requests_issued
  /\ now < MaxTime
  /\ now' = now + 1
  /\ UNCHANGED <<static_vars, _cache, _pending, pc, request, verify_vars, attestation,
                 forwarded, upstream_request, invalidated_in_flight, response, cold_verifications>>

\* The gateway: concurrent proxied and diagnostic requests, cache
\* invalidation and the clock
Next ==
  \/ \E c \in Callers, a \in Apps : requests_issued < MaxRequests /\ ProxyRequest(c, a)
  \/ \E c \in Callers, a \in Apps : requests_issued < MaxRequests /\ ProxyStatus(c, a)
  \/ \E c \in Callers : FetchQuoteFailed(c)
  \/ \E c \in Callers, resp \in GatewayProviderResponses : FetchQuoteReturned(c, resp)
  \/ \E c \in Callers, env \in GatewayDcapEnvs : DcapTask(c, env)
  \/ \E c \in Callers, genv \in GatewayGithubEnvs : GithubTask(c, genv)
  \/ \E c \in Callers : GatherReturned(c)
  \/ \E c \in Callers : GatherRaised(c)
  \/ \E c \in Callers, ok \in BOOLEAN :
       ForwardDone(c, ok, GatewayClientRequest, UpstreamHeaders)
  \/ \E c \in Callers : Finish(c)
  \/ \E c \in Callers : Cancel(c)
  \/ \E a \in Apps : requests_issued < MaxRequests /\ Invalidate(a)
  \/ Tick

Spec == Init /\ [][Next]_vars

\* The suspended steps of the chain verification task c runs
VerificationStep(c) ==
  \/ FetchQuoteFailed(c)
  \/ \E resp \in GatewayProviderResponses : FetchQuoteReturned(c, resp)
  \/ \E env \in GatewayDcapEnvs : DcapTask(c, env)
  \/ \E genv \in GatewayGithubEnvs : GithubTask(c, genv)
  \/ GatherReturned(c)
  \/ GatherRaised(c)

\* Concurrent proxied requests, their cancellation included, at one instant
NextLive ==
  \/ \E c \in Callers, a \in Apps : requests_issued < MaxRequests /\ ProxyRequest(c, a)
  \/ \E c \in Callers : VerificationStep(c)
  \/ \E c \in Callers, ok \in BOOLEAN :
       ForwardDone(c, ok, GatewayClientRequest, UpstreamHeaders)
  \/ \E c \in Callers : Finish(c)
  \/ \E c \in Callers : Cancel(c)

\* Proxied requests of any path and query to applications that answer with
\* any of UpstreamHeaderSets
NextForward ==
  \/ \E c \in Callers, a \in Apps : requests_issued < MaxRequests /\ ProxyRequest(c, a)
  \/ \E c \in Callers : VerificationStep(c)
  \/ \E c \in Callers, ok \in BOOLEAN, client \in ClientRequests,
        upstream \in UpstreamHeaderSets : ForwardDone(c, ok, client, upstream)
  \/ \E c \in Callers : Finish(c)

SpecForward == Init /\ [][NextForward]_vars

\* RegistrationUpdate bodies of PUT /registrations/{id}: the fields that are
\* set, with their values
RegistrationUpdates == {("expected_mrtd" :> "11"), ("image_digest" :> NoneStr)}

\* What GET {tdx_proxy_endpoint}/quote reports to capture_baseline
BaselineMeasurements == {MUpper, MEvil}

\* no request for app a is being served
Quiet(a) == \A c \in Callers : IF pc[c] = "idle" THEN TRUE ELSE request[c].app_id # a

\* update_registration, between the requests for the app
UpdateRegistration(a, data) ==
  /\ Quiet(a)
  /\ registrations' = [registrations EXCEPT ![a] =
       [field \in DOMAIN @ |-> IF field \in DOMAIN data THEN data[field] ELSE @[field]]]
  /\ UNCHANGED <<now, attestation_cache_ttl_seconds, _lock, map_access, _cache, _pending, pc,
                 request, verify_vars, attestation, forwarded, upstream_request, invalidated_in_flight, response,
                 cold_verifications, requests_issued>>

\* capture_baseline, between the requests for the app
CaptureBaseline(a, measurements) ==
  /\ Quiet(a)
  /\ registrations' = [registrations EXCEPT ![a] =
       [@ EXCEPT !.expected_mrtd = measurements.mrtd,
                 !.expected_rtmr0 = measurements.rtmr0,
                 !.expected_rtmr1 = measurements.rtmr1,
                 !.expected_rtmr2 = measurements.rtmr2,
                 !.expected_rtmr3 = measurements.rtmr3]]
  /\ UNCHANGED <<now, attestation_cache_ttl_seconds, _lock, map_access, _cache, _pending, pc,
                 request, verify_vars, attestation, forwarded, upstream_request, invalidated_in_flight, response,
                 cold_verifications, requests_issued>>

\* Proxied requests while an operator edits the registrations
NextUpdate ==
  \/ \E c \in Callers, a \in Apps : requests_issued < MaxRequests /\ ProxyRequest(c, a)
  \/ \E c \in Callers : VerificationStep(c)
  \/ \E c \in Callers, ok \in BOOLEAN :
       ForwardDone(c, ok, GatewayClientRequest, UpstreamHeaders)
  \/ \E c \in Callers : Finish(c)
  \/ \E a \in Apps, data \in RegistrationUpdates : UpdateRegistration(a, data)
  \/ \E a \in Apps, measurements \in BaselineMeasurements : CaptureBaseline(a, measurements)

SpecUpdate == Init /\ [][NextUpdate]_vars

\* Proxied requests with one invalidation more than the request budget, so
\* that an entry stored by one of two concurrent verifications can be
\* invalidated while the other one runs
NextInvalidate ==
  \/ \E c \in Callers, a \in Apps : requests_issued < MaxRequests /\ ProxyRequest(c, a)
  \/ \E c \in Callers : VerificationStep(c)
  \/ \E c \in Callers, ok \in BOOLEAN :
       ForwardDone(c, ok, GatewayClientRequest, UpstreamHeaders)
  \/ \E c \in Callers : Finish(c)
  \/ \E a \in Apps : requests_issued < MaxRequests + 1 /\ Invalidate(a)

SpecInvalidate == Init /\ [][NextInvalidate]_vars

\* The proxied requests when outbound calls return: fetch_quote and the
\* forge API have timeouts (60 s and 30 s), the DCAP call runs in a worker
\* thread and the gh subprocess exits, so a suspended verification
\* eventually takes its next step
SpecLive ==
  /\ Init /\ [][NextLive]_vars
  /\ \A c \in Callers : WF_vars(VerificationStep(c))

\* The gateway under every ttl the configuration can hold
SpecTtl == InitTtl /\ [][Next]_vars

\* Chain verification: one client at a time, through the proxy or through
\* /api/v1/verify, against every registration row, provider answer, host
\* and provenance outcome
NextChain ==
  \/ \E a \in Apps : requests_issued < MaxChainRequests /\ ProxyRequest(1, a)
  \/ \E a \in Apps, q \in SuppliedQuotes :
       requests_issued < MaxChainRequests /\ VerifyFullChain(1, a, q)
  \/ FetchQuoteFailed(1)
  \/ \E resp \in ProviderResponses : FetchQuoteReturned(1, resp)
  \/ \E env \in ChainDcapEnvs : DcapTask(1, env)
  \/ \E genv \in ChainGithubEnvs : GithubTask(1, genv)
  \/ GatherReturned(1)
  \/ GatherRaised(1)
  \/ \E ok \in BOOLEAN : ForwardDone(1, ok, GatewayClientRequest, UpstreamHeaders)
  \/ Finish(1)

SpecChain == InitChain /\ [][NextChain]_vars

\* The verifiers: one client of /api/v1/verify at a time, against every
\* registration row, supplied quote, provider answer, DCAP host and forge
NextVerify ==
  \/ \E a \in Apps, q \in VerifySuppliedQuotes :
       requests_issued < MaxChainRequests /\ VerifyFullChain(1, a, q)
  \/ FetchQuoteFailed(1)
  \/ \E resp \in VerifyProviderResponses : FetchQuoteReturned(1, resp)
  \/ \E env \in DcapEnvs : DcapTask(1, env)
  \/ \E genv \in GithubEnvs : GithubTask(1, genv)
  \/ GatherReturned(1)
  \/ GatherRaised(1)
  \/ Finish(1)

SpecVerify == InitChain /\ [][NextVerify]_vars

\* ---------------------------------------------------------- the cache lock
\* The methods of AttestationCache step by step: each `async with self._lock`
\* is an acquisition (a task waits while another holds the lock) followed by
\* the locked body, which ends by releasing the lock
CacheMethods == {"get", "set", "invalidate", "clear", "get_or_verify"}

\* The lock is one for all apps: the tasks contend for it on one app
LockApps == {"A"}

\* What verifier.verify can return for app a (a DCAP task that raises makes
\* verify raise)
VerifyResults(a) ==
  {FetchFailedResult}
    \cup {ChainResult(registrations[a], resp.quote, resp.measurements, d,
                      _verify_github(registrations[a], genv)) :
            resp \in GatewayProviderResponses,
            d \in {o \in {verify_quote(r.quote, env) :
                             r \in GatewayProviderResponses, env \in GatewayDcapEnvs} :
                     ~o.raised},
            genv \in GatewayGithubEnvs}

\* set lines 98-107: the CachedAttestation is built before the lock is taken
BuildCached(a, result) ==
  set(a, result.dcap.verified /\ result.github.verified /\ result.measurements.verified,
      result.dcap, result.github, result.measurements, now, attestation_cache_ttl_seconds)

\* a task calls a method of the cache and reaches its first `async with`
CacheCall(c, method, a) ==
  /\ pc[c] = "idle"
  /\ requests_issued' = requests_issued + 1
  /\ request' = [request EXCEPT ![c] =
                   [route |-> method, app_id |-> a,
                    section |-> IF method = "get_or_verify" THEN "get" ELSE method]]
  /\ \E result \in VerifyResults(a) :
       attestation' = [attestation EXCEPT ![c] =
                         IF method = "set" THEN BuildCached(a, result) ELSE NoneRec]
  /\ pc' = [pc EXCEPT ![c] = "acquire"]
  /\ map_access' = NoneRec
  /\ UNCHANGED <<now, registrations, attestation_cache_ttl_seconds, _lock, _cache, _pending,
                 verify_vars, forwarded, upstream_request, invalidated_in_flight, response, cold_verifications>>

\* entering a locked section without acquiring the lock
LockAcquire_skipping(c) ==
  /\ pc[c] = "acquire"
  /\ pc' = [pc EXCEPT ![c] = "locked"]
  /\ map_access' = NoneRec
  /\ UNCHANGED <<now, registrations, attestation_cache_ttl_seconds, _lock, _cache, _pending,
                 request, verify_vars, attestation, forwarded, upstream_request, invalidated_in_flight, response, cold_verifications,
                 requests_issued>>

\* `async with self._lock`: the task takes the free lock
LockAcquire(c) ==
  /\ pc[c] = "acquire"
  /\ _lock = 0
  /\ _lock' = c
  /\ pc' = [pc EXCEPT ![c] = "locked"]
  /\ map_access' = NoneRec
  /\ UNCHANGED <<now, registrations, attestation_cache_ttl_seconds, _cache, _pending,
                 request, verify_vars, attestation, forwarded, upstream_request, invalidated_in_flight, response, cold_verifications,
                 requests_issued>>

\* The body of a locked section and the release that ends it. The sections:
\* get (lines 67-75), set (109-110), invalidate (121-125), clear (129-131),
\* and of get_or_verify the lookup in _pending (160-165) and the finally
\* block (194-198); get_or_verify reaches get and set by calling them
LockedBody(c) ==
  LET a == request[c].app_id
      section == request[c].section
      own == request[c].route = section
      g == get(_cache, a, now)
      event == IF _pending[a] # NoneRec THEN _pending[a] ELSE NewEvent(c)
      goto(next_section, next_pc) ==
        /\ request' = [request EXCEPT ![c].section = next_section]
        /\ pc' = [pc EXCEPT ![c] = next_pc]
  IN /\ pc[c] = "locked"
     /\ map_access' = [caller |-> c, holder |-> _lock]
     /\ _lock' = 0
     /\ CASE section = "get" ->
               /\ _cache' = g.cache
               /\ attestation' = [attestation EXCEPT ![c] = g.ret]
               /\ IF own \/ g.ret # NoneRec
                  THEN goto(section, "done")
                  ELSE goto("pending", "acquire")
               /\ UNCHANGED _pending
          [] section = "reget" ->
               /\ _cache' = g.cache
               /\ attestation' = [attestation EXCEPT ![c] = g.ret]
               /\ goto(section, "done")
               /\ UNCHANGED _pending
          [] section = "set" ->
               /\ _cache' = [_cache EXCEPT ![a] = attestation[c]]
               /\ IF own THEN goto(section, "done") ELSE goto("finally", "acquire")
               /\ UNCHANGED <<_pending, attestation>>
          [] section = "invalidate" ->
               /\ _cache' = [_cache EXCEPT ![a] = NoneRec]
               /\ goto(section, "done")
               /\ UNCHANGED <<_pending, attestation>>
          [] section = "clear" ->
               /\ _cache' = [x \in Apps |-> NoneRec]
               /\ goto(section, "done")
               /\ UNCHANGED <<_pending, attestation>>
          [] section = "pending" ->
               /\ _pending' = [_pending EXCEPT ![a] = event]
               /\ IF ~event.is_set
                  THEN goto(section, "verify")
                  ELSE goto("reget", "acquire")
               /\ UNCHANGED <<_cache, attestation>>
          [] section = "finally" ->
               /\ _pending' = [_pending EXCEPT ![a] = NoneRec]
               /\ goto(section, "done")
               /\ UNCHANGED <<_cache, attestation>>
     /\ UNCHANGED <<now, registrations, attestation_cache_ttl_seconds, verify_vars,
                    forwarded, upstream_request, invalidated_in_flight, response, cold_verifications, requests_issued>>

\* verifier.verify returned: get_or_verify calls set, which builds the entry
VerifyReturned(c, a, result) ==
  /\ pc[c] = "verify"
  /\ request[c].app_id = a
  /\ attestation' = [attestation EXCEPT ![c] = BuildCached(a, result)]
  /\ request' = [request EXCEPT ![c].section = "set"]
  /\ pc' = [pc EXCEPT ![c] = "acquire"]
  /\ map_access' = NoneRec
  /\ UNCHANGED <<now, registrations, attestation_cache_ttl_seconds, _lock, _cache, _pending,
                 verify_vars, forwarded, upstream_request, invalidated_in_flight, response, cold_verifications, requests_issued>>

\* verifier.verify raised, or the task was cancelled while it awaited it:
\* get_or_verify goes to its finally block
VerifyRaised(c) ==
  /\ pc[c] = "verify"
  /\ request' = [request EXCEPT ![c].section = "finally"]
  /\ pc' = [pc EXCEPT ![c] = "acquire"]
  /\ map_access' = NoneRec
  /\ UNCHANGED <<now, registrations, attestation_cache_ttl_seconds, _lock, _cache, _pending,
                 verify_vars, attestation, forwarded, upstream_request, invalidated_in_flight, response, cold_verifications,
                 requests_issued>>

\* the method returned to its caller
CacheReturn(c) ==
  /\ pc[c] = "done"
  /\ pc' = [pc EXCEPT ![c] = "idle"]
  /\ request' = [request EXCEPT ![c] = NoneRec]
  /\ attestation' = [attestation EXCEPT ![c] = NoneRec]
  /\ map_access' = NoneRec
  /\ UNCHANGED <<now, registrations, attestation_cache_ttl_seconds, _lock, _cache, _pending,
                 verify_vars, forwarded, upstream_request, invalidated_in_flight, response, cold_verifications, requests_issued>>

\* Concurrent calls of the methods of one AttestationCache at one instant,
\* under every ttl setting: with a negative ttl the entries are stored
\* expired, and get deletes them
NextLock ==
  \/ \E c \in Callers, method \in CacheMethods, a \in LockApps :
       requests_issued < MaxRequests /\ CacheCall(c, method, a)
  \/ \E c \in Callers : LockAcquire(c)
  \/ \E c \in Callers : LockedBody(c)
  \/ \E c \in Callers, a \in LockApps :
       \E result \in VerifyResults(a) : VerifyReturned(c, a, result)
  \/ \E c \in Callers : VerifyRaised(c)
  \/ \E c \in Callers : CacheReturn(c)

SpecLock == InitTtl /\ [][NextLock]_vars

\* ------------------------------------------------------------------ claims
Verifying(c) == pc[c] \in {"fetch_quote", "gather"}
IsProxy(c) == request[c] # NoneRec /\ request[c].route = "proxy"
IsVerify(c) == request[c] # NoneRec /\ request[c].route = "verify"
IsStatus(c) == request[c] # NoneRec /\ request[c].route = "status"

\* C1: an upstream request is sent only for a request whose gate returned an
\* attestation with verified = TRUE and all three sub-results verified; a
\* request answered 403 or 503 by the gate has sent nothing upstream.
C1_ForwardOnlyWhenVerified ==
  \A c \in Callers :
    /\ forwarded[c] =>
         /\ attestation[c] # NoneRec
         /\ attestation[c].verified
         /\ attestation[c].dcap.verified
         /\ attestation[c].github.verified
         /\ attestation[c].measurements.verified
    /\ (IsProxy(c) /\ response[c] # NoneRec /\ response[c].status \in {403, 503})
         => ~forwarded[c]

C1_Witness ==
  \E c \in Callers : pc[c] = "forward" /\ forwarded[c] /\ attestation[c].verified

\* C2: for each app_id at most one get_or_verify call is inside the chain
\* verification at any instant.
C2_AtMostOneVerifierPerApp ==
  \A a \in Apps :
    Cardinality({c \in Callers : IsProxy(c) /\ request[c].app_id = a /\ Verifying(c)}) <= 1

\* C3: get_or_verify calls that arrive for an app_id while no verdict is
\* cached start one chain verification in total.
C3_OneVerificationOnColdCache ==
  \A a \in Apps : cold_verifications[a] <= 1

\* C4: a chain verification that completes with verified = FALSE stores its
\* verdict, and a get_or_verify call that starts while a negative verdict is
\* stored and not yet expired returns that verdict and starts no verification.
C4_NegativeVerdictServedFromCache ==
  [][\A c \in Callers :
       /\ (Verifying(c) /\ IsProxy(c) /\ ~Verifying(c)'
           /\ attestation'[c] # NoneRec /\ ~attestation'[c].verified)
            => _cache'[request[c].app_id] = attestation'[c]
       /\ (pc[c] = "idle" /\ pc'[c] # "idle" /\ request'[c].route = "proxy"
           /\ _cache[request'[c].app_id] # NoneRec
           /\ ~_cache[request'[c].app_id].verified
           /\ now < _cache[request'[c].app_id].expires_at)
            => /\ attestation'[c] = _cache[request'[c].app_id]
               /\ pc'[c] = "done"
               /\ response'[c].status = 403
               /\ _pending' = _pending
               /\ cold_verifications' = cold_verifications
               /\ _cache' = _cache]_vars

\* a request denied with a verdict it did not compute itself
C4_Witness ==
  \E c \in Callers :
    /\ IsProxy(c) /\ pc[c] = "done"
    /\ attestation[c] # NoneRec /\ ~attestation[c].verified
    /\ attestation[c].dcap.status # "FETCH_FAILED"
    /\ quote_base64[c] = NoQuote

\* C5 as stated: get returns the entry stored at t0 exactly while
\* now < t0 + ttl.
C5_ExpiredAtBoundary ==
  [][\A c \in Callers :
       (pc[c] = "idle" /\ pc'[c] # "idle" /\ request'[c].route = "status"
        /\ _cache[request'[c].app_id] # NoneRec)
         => (response'[c].detail.attestation_cached
               <=> now < _cache[request'[c].app_id].cached_at + ttl_seconds)]_vars

\* C5 amended: get returns the entry stored at t0 exactly while
\* now <= t0 + ttl, the boundary instant included.
C5_LiveThroughBoundary ==
  [][\A c \in Callers :
       (pc[c] = "idle" /\ pc'[c] # "idle" /\ request'[c].route = "status"
        /\ _cache[request'[c].app_id] # NoneRec)
         => /\ response'[c].detail.attestation_cached
                 <=> now <= _cache[request'[c].app_id].cached_at + ttl_seconds
            /\ response'[c].detail.attestation_cached
                 => response'[c].detail.attestation = _cache[request'[c].app_id]]_vars

\* get answered with the entry at the instant t0 + ttl
C5_Witness ==
  \E c \in Callers :
    /\ IsStatus(c) /\ pc[c] = "done"
    /\ response[c].detail.attestation_cached
    /\ response[c].detail.attestation.cached_at + ttl_seconds = now

\* C6: when get_or_verify terminates it has returned an attestation that is
\* not expired at that instant, or it has raised and the gate answers 503;
\* it never hands the gate an empty result.
C6_ReturnsLiveEntryOrRaises ==
  [][\A c \in Callers :
       (pc[c] \in {"idle", "fetch_quote", "gather"} /\ pc'[c] \in {"forward", "done"}
        /\ request'[c].route = "proxy")
         => \/ /\ attestation'[c] # NoneRec
               /\ ~(now > attestation'[c].expires_at)
               /\ (pc'[c] = "done" => response'[c].status = 403)
            \/ /\ attestation'[c] = NoneRec
               /\ pc'[c] = "done"
               /\ response'[c].status = 503]_vars

\* a call that ended with an error, next to one that returned an attestation
C6_Witness ==
  \E c, d \in Callers :
    /\ IsProxy(c) /\ pc[c] = "done" /\ attestation[c] = NoneRec /\ response[c].status = 503
    /\ IsProxy(d) /\ pc[d] \in {"forward", "done"} /\ attestation[d] # NoneRec

\* C7: a request whose verdict is the failed quote fetch is answered 503.
C7_FetchFailureAnswered503 ==
  \A c \in Callers :
    (IsProxy(c) /\ pc[c] = "done" /\ attestation[c] # NoneRec
     /\ attestation[c].dcap.status = "FETCH_FAILED")
      => response[c].status = 503

\* C8: a request to /{app_id}/_status leaves the pending map as it is and
\* puts no task into a chain verification.
C8_StatusStartsNoVerification ==
  [][\A c \in Callers :
       (pc[c] = "idle" /\ pc'[c] # "idle" /\ request'[c].route = "status")
         => /\ _pending' = _pending
            /\ cold_verifications' = cold_verifications
            /\ pc'[c] = "done"
            /\ \A d \in Callers : Verifying(d)' => Verifying(d)]_vars

\* the diagnostic route answered on a miss (no entry, or an expired one)
C8_Witness ==
  \E c \in Callers :
    /\ IsStatus(c) /\ pc[c] = "done"
    /\ ~response[c].detail.attestation_cached
    /\ _pending[request[c].app_id] = NoneRec

\* The measurement result of the chain verification task c has completed
HasChainResult(c) ==
  /\ pc[c] \in {"forward", "done"}
  /\ \/ IsProxy(c) /\ attestation[c] # NoneRec
     \/ IsVerify(c) /\ response[c].status = 200

MeasurementsOf(c) ==
  IF IsProxy(c) THEN attestation[c].measurements
  ELSE response[c].detail.result.measurements

DcapOf(c) ==
  IF IsProxy(c) THEN attestation[c].dcap ELSE response[c].detail.result.dcap

\* the registers in the bytes of quote_b64 equal the registration's baseline
QuoteCarriesBaseline(quote_b64, registration) ==
  LET d == b64decode(quote_b64)
  IN /\ d.ok
     /\ d.bytes.len >= MIN_QUOTE_LEN
     /\ Hex(d.bytes.mrtd) = Lower(registration.expected_mrtd)
     /\ Hex(d.bytes.rtmr0) = Lower(registration.expected_rtmr0)
     /\ Hex(d.bytes.rtmr1) = Lower(registration.expected_rtmr1)
     /\ Hex(d.bytes.rtmr2) = Lower(registration.expected_rtmr2)

\* C9: when a chain verification reports measurements.verified = TRUE, the
\* MRTD and RTMR0..2 in the bytes of the quote it gave to DCAP equal the
\* registration's baseline.
C9_VerifiedMeasurementsAreTheQuotes ==
  \A c \in Callers :
    (HasChainResult(c) /\ quote_base64[c] # NoQuote /\ MeasurementsOf(c).verified)
      => QuoteCarriesBaseline(quote_base64[c], registrations[request[c].app_id])

MrtdAbsent(a) == ~Truthy(registrations[a].expected_mrtd)

MockModeSettings == (SettingsFields \cap VerifierSettings) \ {"dcap_library_path", "github_token"}

\* C11: a request is forwarded on an attestation whose DCAP status is
\* MOCK_OK only under a configuration that permits mock mode; under any
\* other configuration it is denied.
C11_MockAdmittedOnlyWhenPermitted ==
  \A c \in Callers :
    (IsProxy(c) /\ forwarded[c] /\ attestation[c].dcap.status = "MOCK_OK")
      => MockModeSettings # {}

\* C12: a forwarded response carries X-TDX-Verified = true and the
\* Verification-Time, DCAP-Status and Cache-Expires of the attestation the
\* gate returned for that request.
C12_ForwardedResponseCarriesHeaders ==
  \A c \in Callers :
    (IsProxy(c) /\ pc[c] = "done" /\ forwarded[c] /\ response[c].status = 200)
      => /\ response[c].headers # NoneRec
         /\ response[c].headers["X-TDX-Verified"] = "true"
         /\ response[c].headers["X-TDX-Verification-Time"] = isoformat(attestation[c].cached_at)
         /\ response[c].headers["X-TDX-DCAP-Status"] = attestation[c].dcap.status
         /\ response[c].headers["X-TDX-Cache-Expires"] = isoformat(attestation[c].expires_at)

\* a response forwarded after the clock moved past the instant of caching
C12_Witness ==
  \E c \in Callers :
    /\ IsProxy(c) /\ pc[c] = "done" /\ forwarded[c] /\ response[c].status = 200
    /\ attestation[c].cached_at < now
    /\ response[c].headers["X-TDX-Verification-Time"] = isoformat(attestation[c].cached_at)

\* C13: a 403 answer of the gate carries the header X-TDX-Verified: false.
C13_DenialCarriesVerifiedFalse ==
  \A c \in Callers :
    (IsProxy(c) /\ pc[c] = "done" /\ response[c].status = 403)
      => /\ response[c].headers # NoneRec
         /\ response[c].headers["X-TDX-Verified"] = "false"

\* C14: a chain verification started by a proxied request ends only by
\* storing its verdict in the cache (or by raising to the gate); the
\* cancellation of the request that started it does not end it.
C14_CancelledVerificationCompletes ==
  [][\A c \in Callers :
       (IsProxy(c) /\ Verifying(c) /\ ~Verifying(c)')
         => \/ /\ _cache'[request[c].app_id] # NoneRec
               /\ _cache'[request[c].app_id].cached_at = now
               /\ _cache'[request[c].app_id] = attestation'[c]
            \/ /\ pc'[c] = "done"
               /\ response'[c].status = 503]_vars

\* the result of the chain verification that task c ran
ResultOf(c) ==
  IF IsProxy(c)
  THEN MkChainResult(attestation[c].dcap, attestation[c].github, attestation[c].measurements)
  ELSE response[c].detail.result

\* C15: when the quote fetch fails, verify returns dcap FETCH_FAILED with
\* verified = FALSE, provenance and measurements unverified and marked
\* skipped, and neither the DCAP task nor the provenance task has run.
C15_FetchFailureSkipsVerifiers ==
  [][\A c \in Callers :
       (pc[c] = "fetch_quote" /\ pc'[c] \in {"forward", "done"})
         => /\ HasChainResult(c)'
            /\ ResultOf(c)'.dcap = MkDcap(FALSE, "FETCH_FAILED")
            /\ ResultOf(c)'.github = MkGithub(FALSE, NoneStr, ERR_SKIPPED)
            /\ ~ResultOf(c)'.measurements.verified
            /\ ResultOf(c)'.measurements.error = ERR_SKIPPED
            /\ pc'[c] = "done"
            /\ dcap_output'[c] = NoneRec /\ dcap_env'[c] = NoneRec
            /\ github_output'[c] = NoneRec /\ github_env'[c] = NoneRec]_vars

\* a verification answered with the fetch failure, no verifier having run
C15_Witness ==
  \E c \in Callers :
    /\ pc[c] = "done" /\ HasChainResult(c)
    /\ ResultOf(c).dcap.status = "FETCH_FAILED"
    /\ dcap_output[c] = NoneRec /\ github_output[c] = NoneRec

\* C16: every call of ChainVerifier.verify returns a result: the direct
\* verification route answers 200 with it.
C16_VerifyAlwaysReturns ==
  \A c \in Callers :
    (IsVerify(c) /\ pc[c] = "done") => response[c].status = 200

\* C17: verify_quote returns a result for every quote and host, and the
\* extraction of the measurement verifier returns measurements or a
\* negative result for every quote handed to it.
C17_VerifiersNeverRaise ==
  \A c \in Callers :
    /\ dcap_output[c] # NoneRec => ~dcap_output[c].raised
    /\ (pc[c] = "gather" /\ actual_measurements[c] = NoneRec)
         => extract_from_base64(quote_base64[c]).ok

\* C18: for a decodable quote shorter than 560 bytes verify_quote answers
\* INVALID_QUOTE_LENGTH, and for one of at least 560 bytes with a version
\* other than 4 it answers INVALID_QUOTE_VERSION, both unverified, whether
\* or not the native library is loaded.
C18_PreChecksInEveryMode ==
  \A c \in Callers :
    (dcap_output[c] # NoneRec /\ ~dcap_output[c].raised /\ b64decode(quote_base64[c]).ok)
      => LET quote == b64decode(quote_base64[c]).bytes
         IN /\ quote.len < MIN_QUOTE_LEN
                 => dcap_output[c] = MkDcap(FALSE, "INVALID_QUOTE_LENGTH")
            /\ (quote.len >= MIN_QUOTE_LEN /\ quote.version # TDX_QUOTE_VERSION)
                 => dcap_output[c] = MkDcap(FALSE, "INVALID_QUOTE_VERSION")

\* the status the mapping of verification_result codes prescribes
StatusOfCode(code) ==
  CASE code = 0 -> "OK"
    [] code = 1 -> "CONFIG_NEEDED"
    [] code = 2 -> "OUT_OF_DATE"
    [] code = 3 -> "OUT_OF_DATE_CONFIG_NEEDED"
    [] code = 4 -> "INVALID_SIGNATURE"
    [] code = 5 -> "REVOKED"
    [] code = 6 -> "UNSPECIFIED"
    [] OTHER -> "UNKNOWN"

\* C19: when the native verify call returned 0, the DCAP result is verified
\* exactly for code 0, codes 0..6 give their named status and every other
\* code gives the status UNKNOWN.
C19_ResultCodeMapping ==
  \A c \in Callers :
    (dcap_output[c] # NoneRec /\ dcap_env[c].lib = "loaded" /\ dcap_env[c].ret = 0
     /\ b64decode(quote_base64[c]).ok)
      => dcap_output[c] = MkDcap(dcap_env[c].code = 0, StatusOfCode(dcap_env[c].code))

\* the provenance result of task c came from the API backend
FromApi(c) ==
  /\ github_output[c] # NoneRec
  /\ github_env[c].cli = "unavailable"
  /\ Truthy(registrations[request[c].app_id].image_digest)

\* the repository the API backend extracted from the predicate equals the
\* registration's, letter case aside
RepositoryMatches(api, registration) ==
  /\ api.status = 200 /\ api.attestations = 1 /\ api.payload.enc = "json"
  /\ LowerStr(api.payload.repository) = LowerStr(expected_repo_full(registration))

\* C20: a provenance result of the API backend is verified only when the
\* repository of the attestation predicate equals
\* https://github.com/{owner}/{repo} of the registration, case-insensitively.
C20_ApiVerifiedOnlyOnRepositoryMatch ==
  \A c \in Callers :
    (FromApi(c) /\ github_output[c].verified)
      => RepositoryMatches(github_env[c].api, registrations[request[c].app_id])

\* the provenance verification of task c ran its backends on a registration
\* with an image digest
RanProvenance(c) ==
  /\ github_output[c] # NoneRec
  /\ Truthy(registrations[request[c].app_id].image_digest)

\* C21: the provenance verification sends a request to the forge API exactly
\* when the CLI backend found no gh tool; a gh run that exits 0 gives
\* verified = TRUE and a gh run that exits nonzero gives verified = FALSE
\* with the text gh wrote to stderr, both without any request to the API.
C21_ApiOnlyWhenCliUnavailable ==
  \A c \in Callers :
    RanProvenance(c)
      => /\ (forge_requests[c] > 0) <=> (github_env[c].cli = "unavailable")
         /\ github_env[c].cli = "exit0"
              => github_output[c].verified /\ forge_requests[c] = 0
         /\ github_env[c].cli = "exit1"
              => /\ ~github_output[c].verified
                 /\ forge_requests[c] = 0
                 /\ github_output[c].error =
                      Strip(IF github_env[c].stderr # <<>> THEN github_env[c].stderr
                            ELSE <<"Verification failed">>)

\* the registers among fields in which actual and the baseline of the
\* registration differ, letter case aside
Differing(actual, registration, fields) ==
  {f \in fields :
     Lower(actual[f]) # Lower(OrEmpty(registration[
       CASE f = "mrtd" -> "expected_mrtd" [] f = "rtmr0" -> "expected_rtmr0"
         [] f = "rtmr1" -> "expected_rtmr1" [] f = "rtmr2" -> "expected_rtmr2"
         [] OTHER -> "expected_rtmr3"]))}

RegisterName(f) ==
  CASE f = "mrtd" -> "MRTD" [] f = "rtmr0" -> "RTMR0" [] f = "rtmr1" -> "RTMR1"
    [] f = "rtmr2" -> "RTMR2" [] OTHER -> "RTMR3"

\* task c returned a measurement result that compare_measurements produced
Compared(c) ==
  /\ HasChainResult(c)
  /\ MeasurementsOf(c).actual_measurements # NoneRec
  /\ Truthy(registrations[request[c].app_id].expected_mrtd)

AllRegisters == {"mrtd", "rtmr0", "rtmr1", "rtmr2", "rtmr3"}

\* the baseline compare_measurements is given for a registration
ExpectedOf(registration) ==
  MkMeasurements(registration.expected_mrtd,
                 OrEmpty(registration.expected_rtmr0),
                 OrEmpty(registration.expected_rtmr1),
                 OrEmpty(registration.expected_rtmr2),
                 OrEmpty(registration.expected_rtmr3))

\* the comparison of measurements against the baseline of registration
\* answers as C22 says for the registers of fields
ComparisonNamesTheRegister(r, actual, registration, fields) ==
  LET d == Differing(actual, registration, fields)
  IN /\ d = {} => /\ r.verified
                   /\ \A f \in DOMAIN NoMatchBits : r.match[f]
     /\ \A f \in fields :
          d = {f} => /\ ~r.verified
                     /\ r.error = <<"Measurement mismatch in", RegisterName(f)>>

\* C22: comparing measurements with themselves yields verified = TRUE with
\* all five match bits, and a change (beyond letter case) of exactly one of
\* MRTD, RTMR0, RTMR1, RTMR2 yields verified = FALSE with exactly that
\* register named in the error; RTMR3 is compared only when skip_rtmr3 is
\* false, and then a change of RTMR3 alone is named the same way.
C22_ComparisonNamesTheRegister ==
  /\ \A c \in Callers :
       Compared(c)
         => ComparisonNamesTheRegister(MeasurementsOf(c), MeasurementsOf(c).actual_measurements,
                                       registrations[request[c].app_id],
                                       AllRegisters \ {"rtmr3"})
  /\ \A c \in Callers :
       Compared(c)
         => \A r \in {compare_measurements(MeasurementsOf(c).actual_measurements,
                                            ExpectedOf(registrations[request[c].app_id]),
                                            FALSE)} :
              \A d \in {Differing(r.actual, registrations[request[c].app_id],
                                  AllRegisters)} :
                /\ d = {} => r.verified /\ r.rtmr3_match
                /\ \A f \in AllRegisters :
                     d = {f} => ~r.verified
                                /\ r.error = <<"Measurement mismatch in", RegisterName(f)>>

\* C22 as stated: a change of any one register, RTMR3 included, yields
\* verified = FALSE with that register named
C22_AnyRegisterNamed ==
  \A c \in Callers :
    Compared(c)
      => ComparisonNamesTheRegister(MeasurementsOf(c), MeasurementsOf(c).actual_measurements,
                                    registrations[request[c].app_id], AllRegisters)

\* a comparison that found only RTMR1 changed against a baseline written
\* in the other letter case
C22_Witness ==
  \E c \in Callers :
    /\ Compared(c)
    /\ MeasurementsOf(c).error = <<"Measurement mismatch in", "RTMR1">>
    /\ MeasurementsOf(c).actual_measurements.mrtd
         # registrations[request[c].app_id].expected_mrtd

\* C23: every entry of the attestation cache has verified equal to the
\* conjunction of its DCAP, provenance and measurement verdicts.
C23_VerifiedIsConjunction ==
  \A a \in Apps :
    _cache[a] # NoneRec
      => (_cache[a].verified
            <=> (_cache[a].dcap.verified /\ _cache[a].github.verified
                   /\ _cache[a].measurements.verified))

\* an entry whose provenance alone failed
C23_Witness ==
  \E a \in Apps :
    /\ _cache[a] # NoneRec
    /\ ~_cache[a].verified
    /\ _cache[a].dcap.verified /\ _cache[a].measurements.verified
    /\ ~_cache[a].github.verified

\* C24: every entry of the attestation cache has expires_at > cached_at,
\* whatever ttl the configuration gave the cache.
C24_ExpiresAfterCached ==
  \A a \in Apps : _cache[a] # NoneRec => _cache[a].expires_at > _cache[a].cached_at

\* C25: the header names stripped from upstream responses are those stripped
\* from forwarded requests plus content-encoding and content-length, so a
\* forwarded response carries no upstream header whose lowercased name is
\* stripped on forward (host included).
C25_ResponseStripsRequestSet ==
  \A c \in Callers :
    (IsProxy(c) /\ pc[c] = "done" /\ response[c].status = 200)
      => /\ SKIP_RESPONSE_HEADERS
              = SKIP_REQUEST_HEADERS \cup {"content-encoding", "content-length"}
         /\ \A k \in DOMAIN response[c].headers :
              /\ Lower(k) \notin SKIP_REQUEST_HEADERS \cup {"content-encoding", "content-length"}
              /\ k \in DOMAIN filter_request_headers(UpstreamHeaders)
                         \cup DOMAIN build_verification_headers(attestation[c])

\* C26: within one chain verification the quote provider receives exactly
\* one request when no quote was supplied (none when one was), the forge API
\* at most one, and no step of the verification sends a second request after
\* a failed call.
C26_OneAttemptPerVerification ==
  [][\A c \in Callers :
       /\ pc'[c] = "fetch_quote" => provider_requests'[c] = 1
       /\ (pc[c] = "idle" /\ pc'[c] = "gather") => provider_requests'[c] = 0
       /\ (Verifying(c) /\ pc'[c] # "idle")
            => /\ provider_requests'[c] = provider_requests[c]
               /\ forge_requests'[c] <= 1
       /\ (pc[c] = "fetch_quote" /\ pc'[c] \in {"done", "forward"})
            => /\ provider_requests'[c] = 1
               /\ forge_requests'[c] = 0]_vars

\* a verification whose quote fetch failed after its one request
C26_Witness ==
  \E c \in Callers :
    /\ IsVerify(c) /\ HasChainResult(c)
    /\ DcapOf(c).status = "FETCH_FAILED"
    /\ provider_requests[c] = 1 /\ forge_requests[c] = 0

\* C30: within one verify call the DCAP and the provenance task run only
\* once the quote is there, neither waits for the other, and the measurement
\* comparison runs only when both have completed.
C30_TasksBetweenQuoteAndComparison ==
  \A c \in Callers :
    /\ pc[c] = "fetch_quote"
         => /\ dcap_output[c] = NoneRec /\ github_output[c] = NoneRec
            /\ \A env \in ChainDcapEnvs : ~ENABLED DcapTask(c, env)
            /\ \A genv \in ChainGithubEnvs : ~ENABLED GithubTask(c, genv)
    /\ (pc[c] = "gather" /\ dcap_output[c] = NoneRec)
         => /\ \A env \in ChainDcapEnvs : ENABLED DcapTask(c, env)
            /\ ~ENABLED GatherReturned(c)
    /\ (pc[c] = "gather" /\ github_output[c] = NoneRec)
         => /\ \A genv \in ChainGithubEnvs : ENABLED GithubTask(c, genv)
            /\ ~ENABLED GatherReturned(c)
    /\ (IsVerify(c) /\ HasChainResult(c) /\ MeasurementsOf(c).error # ERR_SKIPPED)
         => dcap_output[c] # NoneRec /\ github_output[c] # NoneRec

\* the provenance task has finished while the DCAP task still runs
C30_Witness ==
  \E c \in Callers :
    pc[c] = "gather" /\ github_output[c] # NoneRec /\ dcap_output[c] = NoneRec

\* C28: a pending entry is removed (its event set and the entry deleted)
\* only by a step of the get_or_verify call that created it, the step that
\* ends that call's verification.
C28_OnlyCreatorRemoves ==
  [][\A a \in Apps :
       (_pending[a] # NoneRec /\ _pending'[a] = NoneRec)
         => /\ Verifying(_pending[a].creator)
            /\ request[_pending[a].creator].app_id = a
            /\ pc'[_pending[a].creator] \notin {"fetch_quote", "gather"}]_vars

\* C27: every step that ends the verification of a get_or_verify call
\* (return, exception, cancellation) leaves no pending entry for its app; a
\* pending entry exists only while a call verifies that app, so the map is
\* empty once all calls have terminated; and every pending entry is
\* eventually removed.
C27_PendingAlwaysReleased ==
  /\ [][\A c \in Callers :
          (IsProxy(c) /\ Verifying(c) /\ pc'[c] \notin {"fetch_quote", "gather"})
            => _pending'[request[c].app_id] = NoneRec]_vars
  /\ [](\A a \in Apps :
          _pending[a] # NoneRec
            => \E c \in Callers : IsProxy(c) /\ Verifying(c) /\ request[c].app_id = a)
  /\ \A a \in Apps : (_pending[a] # NoneRec) ~> (_pending[a] = NoneRec)

\* all calls have terminated, one of them by the exception of its
\* verification, and the pending map is empty
C27_Witness ==
  /\ \A c \in Callers : ~Verifying(c)
  /\ \A a \in Apps : _pending[a] = NoneRec
  /\ \E c \in Callers : IsProxy(c) /\ pc[c] = "done" /\ response[c].status = 503

\* C29: every access get, set, invalidate, clear and get_or_verify make to
\* the cache map or the pending map is made by the task that holds the lock,
\* neither map changes while the lock is free, and no task holds the lock
\* while it awaits a chain verification.
C29_MapsOnlyUnderLock ==
  /\ [](/\ map_access # NoneRec => map_access.holder = map_access.caller
        /\ \A c \in Callers : pc[c] = "verify" => _lock # c)
  /\ [][(_cache' # _cache \/ _pending' # _pending)
          => (_lock # 0 /\ pc[_lock] = "locked" /\ pc'[_lock] # "locked")]_vars

\* a task awaits its chain verification while another task is inside a
\* locked section
C29_Witness ==
  \E c \in Callers, d \in Callers :
    /\ pc[c] = "verify" /\ _pending[request[c].app_id] # NoneRec
    /\ pc[d] = "locked" /\ _lock = d

\* task c ran verify_quote far enough to call _load_library on the
\* DCAPVerifier of its own ChainVerifier
LoadAttempted(c) == dcap_env[c] # NoneRec /\ b64decode(quote_base64[c]).ok

\* C31: loading of the native DCAP library is attempted once per process:
\* no verification attempts a load while the load outcome of another
\* verification of the same process exists.
C31_LoadAttemptedOnce ==
  [][\A c \in Callers :
       (~LoadAttempted(c) /\ LoadAttempted(c)')
         => \A d \in Callers \ {c} : ~LoadAttempted(d)]_vars

\* the provenance result of task c was produced by the API backend
FromApiBackend(c) == RanProvenance(c) /\ forge_requests[c] > 0

\* C32: every verified = TRUE result of the API provenance backend carries
\* in its error field the caveat that the signature was not fully verified,
\* and no other message.
C32_ApiVerifiedCarriesCaveat ==
  \A c \in Callers :
    (FromApiBackend(c) /\ github_output[c].verified)
      => github_output[c].error
           = <<"API-based verification (signature not fully verified)">>

\* task c got the answer of the application to the request it forwarded
Forwarded(c) ==
  IsProxy(c) /\ pc[c] = "done" /\ forwarded[c] /\ upstream_request[c] # NoneRec

\* C33: the upstream request targets app_endpoint + "/" + tail and carries
\* every key/value pair of the client's query, repeated keys included,
\* exactly once and in the client's order.
C33_QueryForwardedVerbatim ==
  \A c \in Callers :
    Forwarded(c)
      => /\ upstream_request[c].url
              = [app_endpoint |-> request[c].app_id,
                 path |-> <<"/", upstream_request[c].client.path>>]
         /\ upstream_request[c].params = upstream_request[c].client.query

\* C35: under every spelling of X-TDX-Verified, X-TDX-Verification-Time,
\* X-TDX-DCAP-Status and X-TDX-Cache-Expires the proxied response carries
\* the gateway's own value and no value the application sent.
C35_UpstreamVerificationHeadersDropped ==
  \A c \in Callers :
    (Forwarded(c) /\ response[c].status = 200)
      => \A k \in DOMAIN response[c].headers, h \in VerificationHeaderNames :
           Lower(k) = Lower(h)
             => response[c].headers[k] = build_verification_headers(attestation[c])[h]

\* C34: at the step that admits a request, the measurement verdict of the
\* admitted attestation is the one the registration's expected measurements
\* give at that time, and its provenance verdict is not verified unless the
\* registration has an image digest at that time.
C34_AdmittedAgainstCurrentRegistration ==
  [][\A c \in Callers :
       (~forwarded[c] /\ forwarded'[c])
         => /\ attestation'[c].measurements.verified
                 = _verify_measurements(registrations'[request'[c].app_id], NoQuote,
                                        attestation'[c].measurements.actual_measurements).verified
            /\ attestation'[c].github.verified
                 => Truthy(registrations'[request'[c].app_id].image_digest)]_vars

\* C36: for a registration without image_digest the provenance verification
\* returns verified = FALSE without a request to the forge, whatever the
\* CLI and the forge would answer, and no request for that registration is
\* admitted by the gate.
C36_NoDigestNeverAdmitted ==
  \A c \in Callers :
    (IsProxy(c) /\ pc[c] # "idle" /\ ~Truthy(registrations[request[c].app_id].image_digest))
      => /\ github_output[c] # NoneRec
              => /\ ~github_output[c].verified
                 /\ forge_requests[c] = 0
                 /\ \A genv \in GithubEnvs :
                      _verify_github(registrations[request[c].app_id], genv) = github_output[c]
         /\ ~forwarded[c]

\* get_or_verify of task c stores the result of its verification
Stores(c) ==
  /\ IsProxy(c) /\ Verifying(c)
  /\ _cache'[request[c].app_id] # _cache[request[c].app_id]
  /\ _cache'[request[c].app_id] # NoneRec

\* C37: a live cache entry is never replaced: while it is live it changes
\* only by being removed.
C37_LiveEntryNeverReplaced ==
  [][\A a \in Apps :
       (_cache[a] # NoneRec /\ ~is_expired(_cache[a], now) /\ _cache'[a] # _cache[a])
         => _cache'[a] = NoneRec]_vars

\* C38: a verification that was running when invalidate removed the entry of
\* its app does not store its verdict, so the entry stays absent until a
\* verification started after the invalidate stores one.
C38_InFlightVerdictNotStored ==
  [][\A c \in Callers : Stores(c) => c \notin invalidated_in_flight]_vars

\* the chain verification of task c raises: dcap_task raised, or both tasks
\* returned and the measurement step raises
VerificationRaises(c) ==
  /\ IsProxy(c) /\ pc[c] = "gather"
  /\ dcap_output[c] # NoneRec
  /\ IF dcap_output[c].raised THEN TRUE
     ELSE /\ github_output[c] # NoneRec
          /\ _verify_measurements_raises(registrations[request[c].app_id], quote_base64[c],
                                         actual_measurements[c])

\* C39: when the chain verification inside get_or_verify raises, the cache
\* is left as it was, the pending entry of the app is removed and the gate
\* answers 503 without forwarding; and a get_or_verify call that finds no
\* live entry for its app starts a fresh verification.
C39_RaiseLeavesNothingBehind ==
  /\ [][\A c \in Callers :
          (VerificationRaises(c) /\ pc'[c] = "done")
            => /\ _cache' = _cache
               /\ _pending'[request[c].app_id] = NoneRec
               /\ response'[c].status = 503
               /\ ~forwarded'[c]]_vars
  /\ [][\A c \in Callers :
          (pc[c] = "idle" /\ pc'[c] # "idle" /\ request'[c].route = "proxy"
             /\ get(_cache, request'[c].app_id, now).ret = NoneRec)
            => /\ pc'[c] = "fetch_quote"
               /\ provider_requests'[c] = 1
               /\ _pending'[request'[c].app_id] # NoneRec]_vars

\* a call verifies app a afresh, on the pending entry it created, after the
\* verification of another call for a raised and was answered 503
C39_Witness ==
  \E c \in Callers, d \in Callers :
    /\ c # d
    /\ IsProxy(d) /\ pc[d] = "done" /\ response[d].status = 503
    /\ IsProxy(c) /\ request[c].app_id = request[d].app_id
    /\ pc[c] = "fetch_quote"
    /\ _cache[request[c].app_id] = NoneRec
    /\ _pending[request[c].app_id] # NoneRec
    /\ _pending[request[c].app_id].creator = c

\* the apps whose cache entry or pending entry a step changes
ChangedApps == {a \in Apps : _cache'[a] # _cache[a] \/ _pending'[a] # _pending[a]}

\* the app of the call task c makes in a step
CallApp(c) == IF request[c] # NoneRec THEN request[c].app_id ELSE request'[c].app_id

\* C40: a step of get, set, invalidate or get_or_verify on one app changes
\* the cache entry and the pending entry of no other app, and a verification
\* can always take its next step whatever the calls for other apps do.
C40_OtherAppsUntouched ==
  /\ [][/\ Cardinality(ChangedApps) <= 1
        /\ \A c \in Callers : pc'[c] # pc[c] => ChangedApps \subseteq {CallApp(c)}]_vars
  /\ [](\A c \in Callers : Verifying(c) => ENABLED VerificationStep(c))

\* one call has stored its entry for an app while another call still
\* verifies another app on its own pending entry
C40_Witness ==
  \E c \in Callers, d \in Callers :
    /\ IsProxy(c) /\ pc[c] \in {"forward", "done"}
    /\ _cache[request[c].app_id] # NoneRec
    /\ IsProxy(d) /\ Verifying(d)
    /\ request[d].app_id # request[c].app_id
    /\ _pending[request[d].app_id] # NoneRec
    /\ _pending[request[d].app_id].creator = d

====
